---------------------------- MODULE Spec2Model ----------------------------
(***************************************************************************)
(* A model of the indexing and retrieval pipeline of bryntum_mcp:          *)
(*   - the Job Manager (src/src/indexer/cli.js, class JobManager),         *)
(*   - the text chunker (src/src/api/server.js, chunkText and              *)
(*     chunkByMarkdownHeaders) and the Document Processor,                 *)
(*   - the Weaviate adapter's version bookkeeping, the Index Service and   *)
(*     the Query Service.                                                  *)
(* Each part has its own specification over the shared variables; the      *)
(* variables a specification does not use keep their initial value.        *)
(***************************************************************************)
EXTENDS Integers, Sequences, FiniteSets, TLC

VARIABLES
    jobs,        \* JobManager.jobs: Map jobId -> job object
    activeJobs,  \* JobManager.activeJobs: Set of job ids
    now,         \* the wall clock read by new Date() / Date.now()
    last,        \* the JobManager call made last: its name, job id and argument
    path,        \* per job id, the calls made on it while they follow the
                 \* lifecycle createJob, startJob, completeJob; else "other"
    calls,       \* the number of JobManager calls made so far
    doc,         \* the document at hand: its path and content
    req,         \* the chunker or processor call made on it, with its arguments
    ret,         \* what that call returned
    store,       \* the objects of the Weaviate collection, one per chunk
    versionsCache,      \* WeaviateAdapter.versionsCache: null or a list
    versionsCacheTime,  \* WeaviateAdapter.versionsCacheTime: null or a time
    clock,       \* Date.now() as the adapter reads it
    run,         \* the indexDocuments call under way: where it stands, its locals
    done,        \* the indexDocuments calls that have ended, with their outcome
    api,         \* the getLatestVersion call of a request, and what it returned
    search,      \* the search call made, and what it returned
    processedChunks, \* the chunks the processor makes of the document source
    emitted,     \* the events the JobManager call made last has emitted
    listeners,   \* the JobManager's listeners of 'progress': per listener,
                 \* the connection whose onProgress it is
    readyState,  \* per WebSocket connection accepted so far: 1 OPEN, 3 CLOSED
    delivered    \* the listeners the call made last has called, in order

jobVars ==
    <<jobs, activeJobs, now, last, path, calls, emitted, listeners, readyState,
      delivered>>

chunkVars == <<doc, req, ret>>

indexVars == <<store, versionsCache, versionsCacheTime, clock, run, done, api>>

storeVars ==
    <<store, versionsCache, versionsCacheTime, clock, run, done, api, search,
      processedChunks>>

vars == <<jobs, activeJobs, now, last, path, calls, doc, req, ret,
          store, versionsCache, versionsCacheTime, clock, run, done, api, search,
          processedChunks, emitted, listeners, readyState, delivered>>

--------------------------------------------------------------------------
(* JavaScript values *)

\* JS null: a record no job field value is equal to
Null == [null |-> TRUE]

\* a value that may be null or undefined where a string, a list or a number
\* is expected: the set of the values it has, none or one
None == {}

Some(value) == {value}

The(optional) == CHOOSE value \in optional : TRUE

Min(a, b) == IF a <= b THEN a ELSE b
Max(a, b) == IF a >= b THEN a ELSE b

\* list.includes(value)
Includes(list, value) == \E i \in 1..Len(list) : list[i] = value

\* Object.assign(target, ...sources): later sources win, absent keys are kept
ObjectAssign(target, updates) ==
    [f \in (DOMAIN target) \cup (DOMAIN updates) |->
        IF f \in DOMAIN updates THEN updates[f] ELSE target[f]]

--------------------------------------------------------------------------
(* Job Manager *)

\* the ids nanoid() can return in this model
JobIds == {"j1", "j2"}

\* at most this many JobManager calls are made in one behaviour
MaxCalls == 4

\* the clock runs from 0 to MaxTime, in ticks of 24 hours
MaxTime == 2

\* 24 * 60 * 60 * 1000 ms, in ticks of 24 hours
OneDay == 1

\* the calls a job goes through in its regular lifecycle
Lifecycle == <<"createJob", "startJob", "completeJob">>

\* the results a run hands to completeJob
Results == {[documentsProcessed |-> 1, chunksIndexed |-> 2],
            [documentsProcessed |-> 0, chunksIndexed |-> 0]}

\* the Error objects handed to failJob (one with an empty message)
Errors == {[message |-> "boom", stack |-> "at run"],
           [message |-> "", stack |-> "at main"]}

\* the update objects callers hand to updateJob: the upload route's
\* (status 'running', progress 5) and a progress callback's
Updates == {[status |-> "running", stage |-> "uploading", progress |-> 5],
            [stage |-> "processing", progress |-> 50]}

JobExists(jobId) == jobId \in DOMAIN jobs

\* bookkeeping of a JobManager call: what was called, and whether the job's
\* calls so far are a prefix of the regular lifecycle
Called(jobId, op, arg) ==
    /\ calls < MaxCalls
    /\ calls' = calls + 1
    /\ last' = [op |-> op, id |-> jobId, arg |-> arg, found |-> JobExists(jobId),
                at |-> now]
    /\ path' = [path EXCEPT ![jobId] =
                   IF /\ @ # <<"other">>
                      /\ Len(@) < Len(Lifecycle)
                      /\ Lifecycle[Len(@) + 1] = op
                   THEN Append(@, op)
                   ELSE <<"other">>]

\* the job map after updateJob(jobId, updates): unchanged when the job is
\* not found, else the job with the updates and a fresh updatedAt
updateJobKeepsStatus(jobId, updates) ==
    IF ~JobExists(jobId)
    THEN jobs
    ELSE [jobs EXCEPT ![jobId] =
            ObjectAssign(ObjectAssign(@, [f \in (DOMAIN updates) \ {"status"} |->
                                            updates[f]]),
                         [updatedAt |-> now])]

updateJob(jobId, updates) ==
    IF ~JobExists(jobId)
    THEN jobs
    ELSE [jobs EXCEPT ![jobId] =
            ObjectAssign(ObjectAssign(@, updates), [updatedAt |-> now])]

\* the two emit calls of updateJob, each with the job object
emitProgressOnly(jobId, job) ==
    <<[event |-> <<"progress">>, job |-> job]>>

emitProgress(jobId, job) ==
    <<[event |-> <<"progress">>, job |-> job],
      [event |-> <<"progress", jobId>>, job |-> job]>>

\* the listeners emit(event, job) calls, in the order they were added: the
\* connections' onProgress for 'progress', none for a job's own event
listenersOf(event) == IF event = <<"progress">> THEN listeners ELSE <<>>

RECURSIVE calledBy(_)
calledBy(events) ==
    IF events = <<>>
    THEN <<>>
    ELSE listenersOf(Head(events).event) \o calledBy(Tail(events))

\* what updateJob(jobId, ...) emits, and whom the emitter calls: nothing when
\* the job is not found
Emit(jobId) ==
    /\ emitted' = IF JobExists(jobId) THEN emitProgress(jobId, jobs'[jobId]) ELSE <<>>
    /\ delivered' = calledBy(emitted')
    /\ UNCHANGED <<listeners, readyState>>

\* createJob(type, metadata): nanoid() returns an id never used before
CreateJob(jobId) ==
    /\ path[jobId] = <<>>
    /\ ~JobExists(jobId)
    /\ jobs' = [id \in (DOMAIN jobs) \cup {jobId} |->
                  IF id = jobId
                  THEN [id |-> jobId, type |-> "index", status |-> "pending",
                        progress |-> 0, stage |-> "created",
                        message |-> "Job created", createdAt |-> now,
                        updatedAt |-> now, result |-> Null, error |-> Null]
                  ELSE jobs[id]]
    /\ Called(jobId, "createJob", Null)
    /\ emitted' = <<>>
    /\ delivered' = <<>>
    /\ UNCHANGED <<activeJobs, now, listeners, readyState>>

UpdateJob(jobId, updates) ==
    /\ jobs' = updateJob(jobId, updates)
    /\ Called(jobId, "updateJob", updates)
    /\ Emit(jobId)
    /\ UNCHANGED <<activeJobs, now>>

StartJob(jobId) ==
    /\ activeJobs' = activeJobs \cup {jobId}
    /\ jobs' = updateJob(jobId, [status |-> "running", startedAt |-> now])
    /\ Called(jobId, "startJob", Null)
    /\ Emit(jobId)
    /\ UNCHANGED now

CompleteJob(jobId, result) ==
    /\ activeJobs' = activeJobs \ {jobId}
    /\ jobs' = updateJob(jobId, [status |-> "completed", progress |-> 100,
                                 stage |-> "completed",
                                 message |-> "Job completed successfully",
                                 result |-> result, completedAt |-> now])
    /\ Called(jobId, "completeJob", result)
    /\ Emit(jobId)
    /\ UNCHANGED now

FailJobStaysActive(jobId, error) ==
    /\ activeJobs' = activeJobs
    /\ jobs' = updateJob(jobId, [status |-> "failed", stage |-> "error",
                                 message |-> IF error.message # ""
                                             THEN error.message ELSE "Job failed",
                                 error |-> [message |-> error.message,
                                            stack |-> error.stack],
                                 failedAt |-> now])
    /\ Called(jobId, "failJob", error)
    /\ Emit(jobId)
    /\ UNCHANGED now

FailJob(jobId, error) ==
    /\ activeJobs' = activeJobs \ {jobId}
    /\ jobs' = updateJob(jobId, [status |-> "failed", stage |-> "error",
                                 message |-> IF error.message # ""
                                             THEN error.message ELSE "Job failed",
                                 error |-> [message |-> error.message,
                                            stack |-> error.stack],
                                 failedAt |-> now])
    /\ Called(jobId, "failJob", error)
    /\ Emit(jobId)
    /\ UNCHANGED now

getJob(jobId) == IF JobExists(jobId) THEN jobs[jobId] ELSE Null

getAllJobs == {jobs[id] : id \in DOMAIN jobs}

getActiveJobs == {jobs[id] : id \in activeJobs \cap DOMAIN jobs}

CleanupAnyStatus ==
    /\ \E id \in DOMAIN jobs : jobs[id].updatedAt < now - OneDay
    /\ jobs' = [id \in {i \in DOMAIN jobs :
                          ~(jobs[i].updatedAt < now - OneDay)} |-> jobs[id]]
    /\ UNCHANGED <<activeJobs, now, last, path, calls, emitted, listeners,
                   readyState, delivered>>

\* cleanup(): the hourly sweep of terminal jobs older than 24 hours
Cleanup ==
    /\ \E id \in DOMAIN jobs :
          jobs[id].status \in {"completed", "failed"} /\ jobs[id].updatedAt < now - OneDay
    /\ jobs' = [id \in {i \in DOMAIN jobs :
                          ~(jobs[i].status \in {"completed", "failed"}
                            /\ jobs[i].updatedAt < now - OneDay)} |-> jobs[id]]
    /\ UNCHANGED <<activeJobs, now, last, path, calls, emitted, listeners,
                   readyState, delivered>>

Tick ==
    /\ now < MaxTime
    /\ now' = now + 1
    /\ UNCHANGED <<jobs, activeJobs, last, path, calls, emitted, listeners,
                   readyState, delivered>>

\* at most this many WebSocket connections are accepted in one behaviour
MaxConnections == 2

\* emitter.off(event, listener): the listener added last for it is removed
offRemovesFirst(list, connection) == Tail(list)

off(list, connection) ==
    LET at == {i \in 1..Len(list) : list[i] = connection}
    IN  IF at = {}
        THEN list
        ELSE LET i == CHOOSE k \in at : \A j \in at : k >= j
             IN  SubSeq(list, 1, i - 1) \o SubSeq(list, i + 1, Len(list))

\* GET /api/jobs: a client connects, and the handler adds the connection's
\* onProgress to the listeners of 'progress'
Connect ==
    /\ Len(readyState) < MaxConnections
    /\ readyState' = Append(readyState, 1)
    /\ listeners' = Append(listeners, Len(readyState) + 1)
    /\ UNCHANGED <<jobs, activeJobs, now, last, path, calls, emitted, delivered>>

\* the connection's 'close' event: its onProgress is taken off
Close(connection) ==
    /\ readyState[connection] = 1
    /\ readyState' = [readyState EXCEPT ![connection] = 3]
    /\ listeners' = off(listeners, connection)
    /\ UNCHANGED <<jobs, activeJobs, now, last, path, calls, emitted, delivered>>

JobsIdle ==
    /\ jobs = <<>>
    /\ activeJobs = {}
    /\ now = 0
    /\ last = [op |-> "none", id |-> "none", arg |-> Null, found |-> FALSE,
               at |-> 0]
    /\ path = [id \in JobIds |-> <<>>]
    /\ calls = 0
    /\ emitted = <<>>
    /\ listeners = <<>>
    /\ readyState = <<>>
    /\ delivered = <<>>

--------------------------------------------------------------------------
(* Strings: a JS string is the sequence of its characters *)

\* the characters whitespace trimming removes
Whitespace == {" ", "\n"}

\* String.prototype.slice(from, to) and slice(from), 0-based, to exclusive,
\* a negative index counting from the end of the string
Slice(str, from, to) ==
    LET index(i) == IF i < 0 THEN Max(Len(str) + i, 0) ELSE Min(i, Len(str))
    IN  SubSeq(str, index(from) + 1, index(to))

SliceFrom(str, from) == Slice(str, from, Len(str))

\* String.prototype.trim()
Trim(str) ==
    LET inked == {i \in 1..Len(str) : str[i] \notin Whitespace}
    IN  IF inked = {}
        THEN <<>>
        ELSE SubSeq(str, CHOOSE i \in inked : \A j \in inked : i <= j,
                         CHOOSE i \in inked : \A j \in inked : i >= j)

\* String.prototype.lastIndexOf(needle), 0-based, -1 when absent
LastIndexOf(str, needle) ==
    LET hits == {i \in 0..(Len(str) - Len(needle)) :
                    SubSeq(str, i + 1, i + Len(needle)) = needle}
    IN  IF hits = {} THEN -1 ELSE CHOOSE i \in hits : \A j \in hits : i >= j

\* String.prototype.split(separator) for a one-character separator
RECURSIVE Split(_, _)
Split(str, sep) ==
    LET hits == {i \in 1..Len(str) : str[i] = sep}
    IN  IF hits = {}
        THEN <<str>>
        ELSE LET i == CHOOSE h \in hits : \A j \in hits : h <= j
             IN  <<SubSeq(str, 1, i - 1)>> \o Split(SubSeq(str, i + 1, Len(str)), sep)

\* Array.prototype.join('') of the texts of a list
RECURSIVE Concat(_)
Concat(strs) == IF strs = <<>> THEN <<>> ELSE Head(strs) \o Concat(Tail(strs))

\* String.prototype.toLowerCase() on the letters of the model
UpperCase == <<"A", "B", "C", "D", "E", "F", "G", "H", "I", "J", "K", "L", "M", "N", "O", "P", "Q", "R", "S", "T", "U", "V", "W", "X", "Y", "Z">>

LowerCase == <<"a", "b", "c", "d", "e", "f", "g", "h", "i", "j", "k", "l", "m", "n", "o", "p", "q", "r", "s", "t", "u", "v", "w", "x", "y", "z">>

toLowerCase(str) ==
    [i \in 1..Len(str) |->
        IF \E k \in 1..Len(UpperCase) : UpperCase[k] = str[i]
        THEN LowerCase[CHOOSE k \in 1..Len(UpperCase) : UpperCase[k] = str[i]]
        ELSE str[i]]

\* String.prototype.includes(needle) and startsWith(needle)
StrIncludes(str, needle) == LastIndexOf(str, needle) >= 0

StartsWith(str, needle) ==
    Len(needle) <= Len(str) /\ SubSeq(str, 1, Len(needle)) = needle

\* String(n) for the small numbers a part suffix carries
Digits == <<"1", "2", "3", "4", "5", "6", "7", "8", "9">>

--------------------------------------------------------------------------
(* Text chunker, in units of 200 characters *)

\* config.chunking.chunkSize (1000) and the default of chunkText's parameter
DefaultChunkSize == 5

\* config.chunking.chunkOverlap (200) and the default of chunkText's parameter
DefaultChunkOverlap == 1

\* chunkLoop with the remainder pushed even after an equal chunk
RECURSIVE chunkLoopNoSuppression(_, _, _, _, _)
chunkLoopNoSuppression(text, chunkSize, overlap, start, chunks) ==
    IF ~(start < Len(text))
    THEN chunks
    ELSE
        LET end == Min(start + chunkSize, Len(text))
            window == Slice(text, start, end)
            lastPeriod == LastIndexOf(window, <<".", " ">>)
            lastNewline == LastIndexOf(window, <<"\n">>)
            breakPoint == Max(lastPeriod, lastNewline)
            chunk == IF end < Len(text) /\ 2 * breakPoint > chunkSize
                     THEN Slice(window, 0, breakPoint + 1)
                     ELSE window
            pushed == Append(chunks, [start |-> start, raw |-> chunk,
                                      text |-> Trim(chunk), tail |-> FALSE])
            next == end - overlap
        IN  IF next + chunkSize >= Len(text) /\ next < Len(text)
            THEN Append(pushed, [start |-> next, raw |-> SliceFrom(text, next),
                                 text |-> Trim(SliceFrom(text, next)),
                                 tail |-> TRUE])
            ELSE chunkLoopNoSuppression(text, chunkSize, overlap, next, pushed)

\* one pass of chunkText's while loop on its own: the chunks pushed so far
\* with the pass's, the next start, and whether the pass left the loop by its
\* break
whilePass(text, chunkSize, overlap, start, chunks) ==
    LET end == Min(start + chunkSize, Len(text))
        window == Slice(text, start, end)
        lastPeriod == LastIndexOf(window, <<".", " ">>)
        lastNewline == LastIndexOf(window, <<"\n">>)
        breakPoint == Max(lastPeriod, lastNewline)
        chunk == IF end < Len(text) /\ 2 * breakPoint > chunkSize
                 THEN Slice(window, 0, breakPoint + 1)
                 ELSE window
        pushed == Append(chunks, [start |-> start, raw |-> chunk,
                                  text |-> Trim(chunk), tail |-> FALSE])
        next == end - overlap
    IN  IF next + chunkSize >= Len(text) /\ next < Len(text)
        THEN [start |-> next,
              broke |-> TRUE,
              chunks |->
                 IF pushed[Len(pushed)].text # Trim(SliceFrom(text, next))
                 THEN Append(pushed, [start |-> next, raw |-> SliceFrom(text, next),
                                      text |-> Trim(SliceFrom(text, next)),
                                      tail |-> TRUE])
                 ELSE pushed]
        ELSE [start |-> next, broke |-> FALSE, chunks |-> pushed]

\* one pass of chunkText's while loop and the passes after it: `chunks` holds,
\* for each chunk pushed so far, the window start, the chunk before trimming
\* and the chunk pushed
RECURSIVE chunkLoop(_, _, _, _, _)
chunkLoop(text, chunkSize, overlap, start, chunks) ==
    IF ~(start < Len(text))
    THEN chunks
    ELSE
        LET end == Min(start + chunkSize, Len(text))
            window == Slice(text, start, end)
            lastPeriod == LastIndexOf(window, <<".", " ">>)
            lastNewline == LastIndexOf(window, <<"\n">>)
            breakPoint == Max(lastPeriod, lastNewline)
            chunk == IF end < Len(text) /\ 2 * breakPoint > chunkSize
                     THEN Slice(window, 0, breakPoint + 1)
                     ELSE window
            pushed == Append(chunks, [start |-> start, raw |-> chunk,
                                      text |-> Trim(chunk), tail |-> FALSE])
            next == end - overlap
        IN  IF next + chunkSize >= Len(text) /\ next < Len(text)
            THEN IF pushed[Len(pushed)].text # Trim(SliceFrom(text, next))
                 THEN Append(pushed, [start |-> next, raw |-> SliceFrom(text, next),
                                      text |-> Trim(SliceFrom(text, next)),
                                      tail |-> TRUE])
                 ELSE pushed
            ELSE chunkLoop(text, chunkSize, overlap, next, pushed)

\* the chunks chunkText pushes, before the final filter
chunkPushes(text, chunkSize, overlap) ==
    IF Len(text) = 0
    THEN <<>>
    ELSE IF Len(text) <= chunkSize
         THEN <<[start |-> 0, raw |-> text, text |-> text, tail |-> FALSE]>>
         ELSE chunkLoop(text, chunkSize, overlap, 0, <<>>)

NonEmpty(push) == Len(push.text) > 0

\* chunkText(text, chunkSize, overlap)
chunkText(text, chunkSize, overlap) ==
    LET kept == SelectSeq(chunkPushes(text, chunkSize, overlap), NonEmpty)
    IN  [i \in 1..Len(kept) |-> kept[i].text]

\* line.match(/^(#{1,6})\s+(.+)$/): the heading text (group 2), or Null
headerMatch(line) ==
    LET hashes == CHOOSE h \in 0..Len(line) :
                      /\ \A i \in 1..h : line[i] = "#"
                      /\ h < Len(line) => line[h + 1] # "#"
        blanks == CHOOSE w \in 0..(Len(line) - hashes) :
                      /\ \A i \in 1..w : line[hashes + i] \in Whitespace
                      /\ hashes + w < Len(line) => line[hashes + w + 1] \notin Whitespace
        rest   == SubSeq(line, hashes + blanks + 1, Len(line))
    IN  IF hashes < 1 \/ hashes > 6 \/ blanks < 1
        THEN Null
        ELSE IF Len(rest) >= 1
             THEN [heading |-> rest]
             ELSE IF blanks >= 2
                  THEN [heading |-> SubSeq(line, Len(line), Len(line))]
                  ELSE Null

\* heading + (index > 0 ? ` (part ${index + 1})` : ''), index 0-based
partHeading(heading, index) ==
    IF index > 0
    THEN heading \o <<" ", "(", "p", "a", "r", "t", " ", Digits[index + 1], ")">>
    ELSE heading

\* the body of chunkByMarkdownHeaders' loop over the lines, from line i on:
\* `current` is currentChunk, `chunks` the chunks pushed so far
RECURSIVE headerLoop(_, _, _, _, _)
headerLoop(lines, i, maxChunkSize, current, chunks) ==
    IF i > Len(lines)
    THEN IF Trim(current.content) # <<>> THEN Append(chunks, current) ELSE chunks
    ELSE
        LET line == lines[i]
            m == headerMatch(line)
            saved == IF m # Null /\ Trim(current.content) # <<>>
                     THEN Append(chunks, current)
                     ELSE chunks
            grown == IF m # Null
                     THEN [heading |-> Trim(m.heading), content |-> line \o <<"\n">>]
                     ELSE [heading |-> current.heading,
                           content |-> current.content \o line \o <<"\n">>]
            textChunks == chunkText(grown.content, maxChunkSize, DefaultChunkOverlap)
        IN  IF Len(grown.content) > maxChunkSize
            THEN headerLoop(lines, i + 1, maxChunkSize,
                            [heading |-> <<>>, content |-> <<>>],
                            saved \o [k \in 1..Len(textChunks) |->
                                        [heading |-> partHeading(grown.heading, k - 1),
                                         content |-> textChunks[k]]])
            ELSE headerLoop(lines, i + 1, maxChunkSize, grown, saved)

\* chunkByMarkdownHeaders(text, maxChunkSize)
chunkByMarkdownHeaders(text, maxChunkSize) ==
    headerLoop(Split(text, "\n"), 1, maxChunkSize,
               [heading |-> <<>>, content |-> <<>>], <<>>)

--------------------------------------------------------------------------
(* Document Processor *)

\* new DocumentProcessor(options): an option that is absent or 0 is falsy and
\* gives way to the configured value; useMarkdownHeaders defaults to true
DocumentProcessor(options) ==
    [chunkSize |-> IF options.chunkSize # 0
                   THEN options.chunkSize ELSE DefaultChunkSize,
     chunkOverlap |-> IF options.chunkOverlap # 0
                      THEN options.chunkOverlap ELSE DefaultChunkOverlap,
     useMarkdownHeaders |-> options.useMarkdownHeaders]

\* documentPath.replace(/\.[^/.]+$/, ''): the extension, a last dot with
\* neither dot nor slash after it and at least one character, is cut off
stripExtension(documentPath) ==
    LET dot == LastIndexOf(documentPath, <<".">>)
    IN  IF /\ dot >= 0
           /\ dot < Len(documentPath) - 1
           /\ LastIndexOf(documentPath, <<"/">>) < dot
        THEN Slice(documentPath, 0, dot)
        ELSE documentPath

\* part => part && part !== '.'
IsPart(part) == part # <<>> /\ part # <<".">>

\* [...new Set(list)]: the first occurrence of each element, in order
RECURSIVE Unique(_)
Unique(list) ==
    IF list = <<>>
    THEN <<>>
    ELSE LET front == Unique(SubSeq(list, 1, Len(list) - 1))
             last_ == list[Len(list)]
         IN  IF \E i \in 1..Len(front) : front[i] = last_
             THEN front
             ELSE Append(front, last_)

\* extractTags(documentPath): the folders between the root folder and the file
extractTags(documentPath) ==
    LET parts == SelectSeq(Split(stripExtension(documentPath), "/"), IsPart)
    IN  Unique(SubSeq(parts, 2, Len(parts) - 1))

\* extractTags of the variant that keeps the root folder
extractTagsWithRoot(documentPath) ==
    LET parts == SelectSeq(Split(stripExtension(documentPath), "/"), IsPart)
    IN  Unique(SubSeq(parts, 1, Len(parts) - 1))

\* the products and frameworks known, in the order they are tried
Products ==
    <<<<"g", "r", "i", "d">>,
      <<"s", "c", "h", "e", "d", "u", "l", "e", "r">>,
      <<"s", "c", "h", "e", "d", "u", "l", "e", "r", "p", "r", "o">>,
      <<"g", "a", "n", "t", "t">>,
      <<"c", "a", "l", "e", "n", "d", "a", "r">>,
      <<"t", "a", "s", "k", "b", "o", "a", "r", "d">>>>

Frameworks ==
    <<<<"r", "e", "a", "c", "t">>,
      <<"a", "n", "g", "u", "l", "a", "r">>,
      <<"v", "u", "e">>,
      <<"v", "a", "n", "i", "l", "l", "a">>>>

Core == <<"c", "o", "r", "e">>

Vanilla == <<"v", "a", "n", "i", "l", "l", "a">>

Guide == <<"g", "u", "i", "d", "e">>

Api == <<"a", "p", "i">>

Example == <<"e", "x", "a", "m", "p", "l", "e">>

Concept == <<"c", "o", "n", "c", "e", "p", "t">>

\* pathLower.includes(`/${token}/`)
InPath(pathLower, token) == StrIncludes(pathLower, <<"/">> \o token \o <<"/">>)

\* pathLower.startsWith(`${token}/`)
AtRoot(pathLower, token) == StartsWith(pathLower, token \o <<"/">>)

\* for (const token of tokens) if (includes || startsWith) return token;
\* return fallback
firstKnown(pathLower, tokens, fallback) ==
    LET hits == {k \in 1..Len(tokens) :
                    InPath(pathLower, tokens[k]) \/ AtRoot(pathLower, tokens[k])}
    IN  IF hits = {}
        THEN fallback
        ELSE tokens[CHOOSE k \in hits : \A h \in hits : k <= h]

\* extractProduct(documentPath)
extractProduct(documentPath) == firstKnown(toLowerCase(documentPath), Products, Core)

\* extractFramework(documentPath)
extractFramework(documentPath) ==
    firstKnown(toLowerCase(documentPath), Frameworks, Vanilla)

\* extractType(documentPath)
extractType(documentPath) ==
    LET pathLower == toLowerCase(documentPath)
    IN  IF InPath(pathLower, Guide \o <<"s">>) \/ InPath(pathLower, Guide)
        THEN Guide
        ELSE IF InPath(pathLower, Api) \/ AtRoot(pathLower, Api)
        THEN Api
        ELSE IF InPath(pathLower, Example \o <<"s">>) \/ InPath(pathLower, Example)
        THEN Example
        ELSE IF InPath(pathLower, Concept \o <<"s">>) \/ InPath(pathLower, Concept)
        THEN Concept
        ELSE Guide

\* the chunks as processDocument sees them: text and heading of each
chunksOf(processor, content) ==
    IF processor.useMarkdownHeaders
    THEN LET cs == chunkByMarkdownHeaders(content, processor.chunkSize)
         IN  [i \in 1..Len(cs) |-> [text |-> cs[i].content, heading |-> cs[i].heading]]
    ELSE LET cs == chunkText(content, processor.chunkSize, processor.chunkOverlap)
         IN  [i \in 1..Len(cs) |-> [text |-> cs[i], heading |-> <<>>]]

\* processDocument(document): chunks.map((chunk, index) => ...)
processDocumentOffByOne(processor, document) ==
    LET chunks == chunksOf(processor, document.content)
    IN  [i \in 1..Len(chunks) |->
            [text |-> chunks[i].text,
             metadata |-> [documentPath |-> document.path,
                           tags |-> extractTags(document.path),
                           chunkIndex |-> i,
                           totalChunks |-> Len(chunks),
                           heading |-> chunks[i].heading]]]

processDocument(processor, document) ==
    LET chunks == chunksOf(processor, document.content)
    IN  [i \in 1..Len(chunks) |->
            [text |-> chunks[i].text,
             metadata |-> [documentPath |-> document.path,
                           tags |-> extractTags(document.path),
                           chunkIndex |-> i - 1,
                           totalChunks |-> Len(chunks),
                           heading |-> chunks[i].heading]]]

\* processDocument of the variant that does not chunk
processDocumentNoChunking(processor, document) ==
    <<[text |-> document.content,
       metadata |-> [documentPath |-> document.path,
                     tags |-> extractTagsWithRoot(document.path),
                     chunkIndex |-> 0,
                     totalChunks |-> 1,
                     heading |-> <<>>]]>>

\* the path "d/r/r/a.md" of the documents that are chunked
GuidePath == <<"d", "/", "r", "/", "r", "/", "a", ".", "m", "d">>

\* the documents of the model: every text of at most MaxLen characters over
\* one of two alphabets (prose with sentence ends, Markdown with headings),
\* and the 3 * chunkSize character texts of letters and line ends
MaxLen == 6

ProseAlphabet == {"a", " ", ".", "\n"}

MarkdownAlphabet == {"a", " ", "#", "\n"}

LongAlphabet == {"a", "\n"}

ShortTexts ==
    UNION {[1..n -> ProseAlphabet] \cup [1..n -> MarkdownAlphabet] : n \in 0..MaxLen}

LongTexts == [1..(3 * DefaultChunkSize) -> LongAlphabet]

\* the (chunkSize, overlap) pairs chunkText is called with: 0 <= overlap < chunkSize
ChunkArgs == {<<1, 0>>, <<2, 0>>, <<2, 1>>, <<3, 1>>, <<5, 0>>, <<5, 1>>, <<5, 2>>}

\* the options a DocumentProcessor is built with (0: not given, or given as 0)
ProcessorOptions ==
    {[chunkSize |-> 0, chunkOverlap |-> 0, useMarkdownHeaders |-> FALSE],
     [chunkSize |-> 2, chunkOverlap |-> 0, useMarkdownHeaders |-> FALSE],
     [chunkSize |-> 3, chunkOverlap |-> 2, useMarkdownHeaders |-> FALSE],
     [chunkSize |-> 0, chunkOverlap |-> 0, useMarkdownHeaders |-> TRUE],
     [chunkSize |-> 3, chunkOverlap |-> 0, useMarkdownHeaders |-> TRUE]}

NoCall == [fn |-> "none"]

ChunkIdle ==
    /\ doc = [path |-> <<>>, content |-> <<>>]
    /\ req = NoCall
    /\ ret = <<>>

\* a caller calls chunkText(doc.content, chunkSize, overlap)
CallChunkText(args) ==
    /\ req = NoCall
    /\ Len(doc.content) <= MaxLen \/ args = <<DefaultChunkSize, DefaultChunkOverlap>>
    /\ req' = [fn |-> "chunkText", chunkSize |-> args[1], overlap |-> args[2]]
    /\ ret' = chunkText(doc.content, args[1], args[2])
    /\ UNCHANGED doc

\* the texts of the calls followed pass by pass
LoopTexts == UNION {[1..n -> LongAlphabet] : n \in 1..MaxLen}

\* the (chunkSize, overlap) pairs of the calls followed pass by pass:
\* chunkSize >= 1 and overlap >= 0, below, at and above the chunk size
LoopArgs == {<<1, 0>>, <<2, 1>>, <<3, 1>>, <<1, 1>>, <<2, 2>>, <<1, 2>>, <<2, 3>>}

\* chunkText(doc.content, chunkSize, overlap) up to its while loop: the two
\* early returns, or `chunks = []; start = 0`
EnterChunkText(args) ==
    /\ req = NoCall
    /\ IF Len(doc.content) <= args[1]
       THEN /\ req' = [fn |-> "returned", chunkSize |-> args[1],
                       overlap |-> args[2], start |-> 0, passes |-> 0]
            /\ ret' = IF Len(doc.content) = 0 THEN <<>> ELSE <<doc.content>>
       ELSE /\ req' = [fn |-> "chunkText", chunkSize |-> args[1],
                       overlap |-> args[2], start |-> 0, passes |-> 0]
            /\ ret' = <<>>
    /\ UNCHANGED doc

\* the loop's test and one pass of its body; after the loop the empty chunks
\* are filtered out and the list returned. The passes followed are capped
\* above the length of the text.
WhilePass ==
    /\ req.fn = "chunkText"
    /\ req.passes <= MaxLen
    /\ LET pass == whilePass(doc.content, req.chunkSize, req.overlap,
                             req.start, ret)
           returns(chunks) ==
               LET kept == SelectSeq(chunks, NonEmpty)
               IN  /\ req' = [req EXCEPT !.fn = "returned"]
                   /\ ret' = [i \in 1..Len(kept) |-> kept[i].text]
       IN  IF ~(req.start < Len(doc.content))
           THEN returns(ret)
           ELSE IF pass.broke
           THEN returns(pass.chunks)
           ELSE /\ req' = [req EXCEPT !.start = pass.start, !.passes = @ + 1]
                /\ ret' = pass.chunks
    /\ UNCHANGED doc

\* a caller builds a DocumentProcessor and calls processDocument(doc)
CallProcessDocument(options) ==
    /\ req = NoCall
    /\ Len(doc.content) <= MaxLen
    /\ req' = [fn |-> "processDocument", options |-> options]
    /\ ret' = processDocument(DocumentProcessor(options), doc)
    /\ UNCHANGED doc

\* the same with the processor variant that does not chunk
CallProcessDocumentNoChunking(options) ==
    /\ req = NoCall
    /\ Len(doc.content) <= MaxLen
    /\ req' = [fn |-> "processDocumentNoChunking", options |-> options]
    /\ ret' = processDocumentNoChunking(DocumentProcessor(options), doc)
    /\ UNCHANGED doc

\* the paths metadata is derived from: up to MaxSegments folders, in upper
\* or lower case, known or not, and a file name
MaxSegments == 3

Folders ==
    {<<"g", "r", "i", "d">>,
     <<"G", "a", "n", "t", "t">>,
     <<"r", "e", "a", "c", "t">>,
     <<"e", "x", "a", "m", "p", "l", "e", "s">>,
     <<"g", "u", "i", "d", "e">>,
     <<"a", "p", "i">>,
     <<"m", "i", "s", "c">>}

FileNames == {<<"a", ".", "m", "d">>, <<"g", "r", "i", "d">>}

\* Array.prototype.join('/')
RECURSIVE JoinPath(_)
JoinPath(parts) ==
    IF Len(parts) = 1
    THEN parts[1]
    ELSE parts[1] \o <<"/">> \o JoinPath(Tail(parts))

DocumentPaths ==
    UNION {{JoinPath(Append(folders, file)) :
               folders \in [1..n -> Folders], file \in FileNames} :
           n \in 0..MaxSegments}

\* a caller calls extractProduct(doc.path)
CallExtractProduct ==
    /\ req = NoCall
    /\ req' = [fn |-> "extractProduct"]
    /\ ret' = extractProduct(doc.path)
    /\ UNCHANGED doc

\* a caller calls extractFramework(doc.path)
CallExtractFramework ==
    /\ req = NoCall
    /\ req' = [fn |-> "extractFramework"]
    /\ ret' = extractFramework(doc.path)
    /\ UNCHANGED doc

\* a caller calls extractType(doc.path)
CallExtractType ==
    /\ req = NoCall
    /\ req' = [fn |-> "extractType"]
    /\ ret' = extractType(doc.path)
    /\ UNCHANGED doc

--------------------------------------------------------------------------
(* Vector store adapter: the collection and the adapter's versions cache *)

\* the version strings of the model, "9" and "10"
Versions == {<<"9">>, <<"1", "0">>}

\* the characters of a version string, in the order of their code units
CodeUnits == <<".", "0", "1", "2", "3", "4", "5", "6", "7", "8", "9">>

CodeUnit(char) == CHOOSE i \in 1..Len(CodeUnits) : CodeUnits[i] = char

\* a < b in the order Array.prototype.sort() uses when given no comparator
RECURSIVE StrLess(_, _)
StrLess(a, b) ==
    IF a = <<>> THEN b # <<>>
    ELSE IF b = <<>> THEN FALSE
    ELSE IF a[1] = b[1] THEN StrLess(Tail(a), Tail(b))
    ELSE CodeUnit(a[1]) < CodeUnit(b[1])

\* Array.from(versions).sort()
RECURSIVE SortStrings(_)
SortStrings(strs) ==
    IF strs = {}
    THEN <<>>
    ELSE LET least == CHOOSE x \in strs : \A y \in strs \ {x} : StrLess(x, y)
         IN  <<least>> \o SortStrings(strs \ {least})

\* withLimit(10000) of the versions query, in units of a third of it
QueryLimit == 3

\* cacheTimeout, and the clock, in units of 60 seconds
CacheTimeout == 1

\* the objects a Get query without filter returns: all of them, or as many as
\* the limit allows; which ones is the store's choice
Listings(objects) ==
    {listed \in SUBSET objects :
        Cardinality(listed) = Min(QueryLimit, Cardinality(objects))}

\* getAllVersions, the query and its evaluation: the sorted distinct versions
\* of the objects listed, an object without version left out
VersionLists(objects) ==
    {SortStrings({obj.version : obj \in {o \in listed : o.version # <<>>}}) :
        listed \in Listings(objects)}

\* getAllVersions, the test on the cache: a list is cached, its time is set
\* and less than cacheTimeout ago
CacheIsFresh ==
    /\ versionsCache # None
    /\ versionsCacheTime # None
    /\ The(versionsCacheTime) # 0
    /\ clock - The(versionsCacheTime) < CacheTimeout

latestOfNeverNull(versions) ==
    IF Len(versions) = 0 THEN Some(<<"9">>) ELSE Some(versions[Len(versions)])

\* getLatestVersion: the last element of the list of versions, or null
latestOf(versions) ==
    IF Len(versions) = 0 THEN None ELSE Some(versions[Len(versions)])

\* { path: [property], operator: 'Equal', valueText: value } as the store
\* evaluates it: the property is the value, or for the text[] property tags
\* has the value among its elements
Equal(obj, property, value) ==
    IF property = "tags" THEN Includes(obj.tags, value) ELSE obj[property] = value

MatchesAnyField(obj, filter) ==
    \E key \in DOMAIN filter :
        filter[key] = None \/ \E value \in filter[key] : Equal(obj, key, value)

\* buildWhereFilter(filter) as a test; a field of the filter holds the set
\* of its values, one for a scalar, none for null, undefined or []: the
\* object has, in every field the filter gives values for, one of them
Matches(obj, filter) ==
    \A key \in DOMAIN filter :
        filter[key] = None \/ \E value \in filter[key] : Equal(obj, key, value)

\* buildWhereFilter(filter) returns null when no field gives a condition
NoCondition(filter) == \A key \in DOMAIN filter : filter[key] = None

\* deleteDocuments with the batch delete sent whatever the where filter
afterDeleteUnguarded(objects, filter) ==
    {obj \in objects : ~Matches(obj, filter)}

\* deleteDocuments(filter): what is left in the collection
afterDelete(objects, filter) ==
    IF NoCondition(filter)
    THEN objects
    ELSE {obj \in objects : ~Matches(obj, filter)}

\* addDocuments(documents): the objects written, one per chunk
objectsOf(documents) ==
    {[id |-> documents[i].id,
      text |-> documents[i].text,
      version |-> documents[i].metadata.version,
      path |-> documents[i].metadata.documentPath,
      tags |-> documents[i].metadata.tags,
      chunkIndex |-> documents[i].metadata.chunkIndex,
      totalChunks |-> IF documents[i].metadata.totalChunks = 0
                      THEN 1 ELSE documents[i].metadata.totalChunks] :
        i \in 1..Len(documents)}

--------------------------------------------------------------------------
(* Index Service: indexDocuments, one step per suspension point *)

\* the documents the source yields, "d/r/a.md" with two headed sections,
\* the empty file "d/v/c.md", "d/r/t.md" that has no content to split, and
\* "d/9/b.md", one line of text in a folder named like a version
SourceDocuments ==
    <<[path |-> <<"d", "/", "r", "/", "a", ".", "m", "d">>,
       content |-> <<"#", " ", "a", "\n", "#", " ", "a">>],
      [path |-> <<"d", "/", "v", "/", "c", ".", "m", "d">>,
       content |-> <<>>],
      [path |-> <<"d", "/", "r", "/", "t", ".", "m", "d">>],
      [path |-> <<"d", "/", "9", "/", "b", ".", "m", "d">>,
       content |-> <<"a">>]>>

\* processDocument(document) throws a TypeError: text.split('\n') of a
\* content that is undefined
processDocumentThrows(document) == "content" \notin DOMAIN document

RECURSIVE processDocumentsAborting(_, _)
processDocumentsAborting(processor, documents) ==
    IF documents = <<>> \/ processDocumentThrows(Head(documents))
    THEN <<>>
    ELSE processDocument(processor, Head(documents))
             \o processDocumentsAborting(processor, Tail(documents))

\* processDocuments(documents): the chunks of the documents, in order; the
\* error of a document on which processDocument throws is caught and logged
RECURSIVE processDocuments(_, _)
processDocuments(processor, documents) ==
    IF documents = <<>>
    THEN <<>>
    ELSE (IF processDocumentThrows(Head(documents))
          THEN <<>>
          ELSE processDocument(processor, Head(documents)))
             \o processDocuments(processor, Tail(documents))

\* processDocuments of a new DocumentProcessor() applied to the source
SourceChunks ==
    processDocuments(
        DocumentProcessor([chunkSize |-> 0, chunkOverlap |-> 0,
                           useMarkdownHeaders |-> TRUE]),
        SourceDocuments)

\* the number of indexDocuments calls of a behaviour, and the last clock value
MaxRuns == 2

MaxClock == 2

\* the options indexDocuments is called with ('' for a version not given)
IndexOptions ==
    [version : Versions \cup {<<>>}, batchSize : {2}, clearExisting : BOOLEAN]

\* the options of a call that leaves batchSize and clearExisting to their
\* defaults: batches of 50 (here 2), clearExisting false
DefaultOptions ==
    [version : Versions \cup {<<>>}, batchSize : {2}, clearExisting : {FALSE}]

\* the options of runs with batches of every size up to the number of chunks
BatchOptions ==
    [version : {<<"9">>}, batchSize : 1..Len(processedChunks), clearExisting : {FALSE}]

NoRun == [pc |-> "idle"]

\* const tags = this.extractTags(document.path): one array for each document,
\* which the metadata of all its chunks refer to
sharedTags ==
    LET paths == {processedChunks[k].metadata.documentPath :
                     k \in 1..Len(processedChunks)}
    IN  [documentPath \in paths |->
            LET first == CHOOSE k \in 1..Len(processedChunks) :
                             processedChunks[k].metadata.documentPath = documentPath
            IN  processedChunks[first].metadata.tags]

NoRequest == [pc |-> "idle"]

stampChunkAlways(chunk, id, version) ==
    [id |-> id,
     text |-> chunk.text,
     metadata |-> ObjectAssign(chunk.metadata,
         [version |-> version,
          tags |-> Append(chunk.metadata.tags, version)])]

\* the loop body's stamping of a chunk: the version goes into the metadata
\* and, when not there yet, to the end of a copy of the tags, which becomes
\* the chunk's own array; id stands for the UUID processDocument gave the chunk
stampChunk(chunk, id, version) ==
    [id |-> id,
     text |-> chunk.text,
     metadata |-> ObjectAssign(chunk.metadata,
         [version |-> version,
          tags |-> IF Includes(chunk.metadata.tags, version)
                   THEN chunk.metadata.tags
                   ELSE Append(chunk.metadata.tags, version)])]

\* what getDocumentCount() gives: the number of documents readDocuments
\* yields, 0 (ZipSource when the count fails) or null (DocumentSource)
DocumentCounts == {None, Some(0), Some(Len(SourceDocuments))}

\* the JS number Infinity: above every finite progress value
Infinity == 1000000

\* 20 + Math.floor((documentsProcessed / totalDocs) * 75), the division by 0
\* or null giving Infinity
progressPercent(documentsProcessed, totalDocs) ==
    IF totalDocs = None \/ The(totalDocs) = 0
    THEN Infinity
    ELSE 20 + ((documentsProcessed * 75) \div The(totalDocs))

\* after the loop and the last flush: reportProgress('finalizing', 98)
finalizing(r) == [r EXCEPT !.pc = "cleanup", !.progress = Append(@, 98)]

\* the for await loop from chunk r.next on, up to the next addDocuments call
RECURSIVE forAwait(_)
forAwait(r) ==
    IF r.next > Len(processedChunks)
    THEN IF Len(r.chunks) > 0
         THEN [r EXCEPT !.pc = "addRemaining"]
         ELSE finalizing(r)
    ELSE LET yielded == processedChunks[r.next]
             tags == r.shared[yielded.metadata.documentPath]
             chunk == stampChunk([yielded EXCEPT !.metadata.tags = tags],
                                 <<r.n, r.next>>, r.options.version)
             first == chunk.metadata.chunkIndex = 0
             processed == r.documentsProcessed + (IF first THEN 1 ELSE 0)
             pushed == [r EXCEPT
                          !.next = @ + 1,
                          !.chunks = Append(@, chunk),
                          !.documentsProcessed = processed,
                          !.progress =
                              IF first
                              THEN Append(@, progressPercent(processed, r.totalDocs))
                              ELSE @]
         IN  IF Len(pushed.chunks) >= r.options.batchSize
             THEN [pushed EXCEPT !.pc = "addBatch"]
             ELSE forAwait(pushed)

\* after the version check: the clearExisting branch and
\* reportProgress('extracting', 10)
extracting(r) ==
    [r EXCEPT !.pc = "getDocumentCount",
              !.progress = IF r.options.clearExisting
                           THEN Append(Append(@, 5), 10)
                           ELSE Append(@, 10)]

versionCheckNeverDeletes(r, existingVersions) ==
    extracting([r EXCEPT !.existing = existingVersions])

\* existingVersions.includes(version): report 5 and delete, or go on
versionCheck(r, existingVersions) ==
    IF Includes(existingVersions, r.options.version)
    THEN [r EXCEPT !.existing = existingVersions,
                   !.pc = "deleteByVersion",
                   !.progress = Append(@, 5)]
    ELSE extracting([r EXCEPT !.existing = existingVersions])

\* a write to the collection overtakes the getLatestVersion call under way
\* or returned
overtaken(call) ==
    IF call.pc = "idle" THEN call ELSE [call EXCEPT !.overtaken = TRUE]

IndexDocumentsUnchecked(options) ==
    /\ run = NoRun
    /\ Len(done) < MaxRuns
    /\ run' = [pc |-> "initialize",
               n |-> Len(done) + 1,
               options |-> options,
               existing |-> <<>>,
               next |-> 1,
               chunks |-> <<>>,
               documentsProcessed |-> 0,
               chunksIndexed |-> 0,
               totalDocs |-> None,
               progress |-> <<0>>,
               written |-> {},
               shared |-> sharedTags,
               log |-> <<>>]
    /\ UNCHANGED <<store, versionsCache, versionsCacheTime, clock, done, api>>

\* indexDocuments(options) up to its first await: the version check throws,
\* or progress 0 is reported and initialize() is called
IndexDocuments(options) ==
    /\ run = NoRun
    /\ Len(done) < MaxRuns
    /\ IF options.version = <<>>
       THEN /\ done' = Append(done, [n |-> Len(done) + 1,
                                     version |-> options.version,
                                     error |-> "Version is required for indexing",
                                     written |-> {},
                                     existing |-> <<>>,
                                     log |-> <<>>,
                                     progress |-> <<>>])
            /\ run' = run
       ELSE /\ run' = [pc |-> "initialize",
                       n |-> Len(done) + 1,
                       options |-> options,
                       existing |-> <<>>,
                       next |-> 1,
                       chunks |-> <<>>,
                       documentsProcessed |-> 0,
                       chunksIndexed |-> 0,
                       totalDocs |-> None,
                       progress |-> <<0>>,
                       written |-> {},
                       shared |-> sharedTags,
                       log |-> <<>>]
            /\ done' = done
    /\ UNCHANGED <<store, versionsCache, versionsCacheTime, clock, api>>

\* initialize() returns; getAllVersions() is called
Initialize ==
    /\ run.pc = "initialize"
    /\ run' = [run EXCEPT !.pc = "getAllVersions"]
    /\ UNCHANGED <<store, versionsCache, versionsCacheTime, clock, done, api>>

\* getAllVersions() of the run: the cached list, or the query is sent and
\* evaluated by the store
GetAllVersions ==
    /\ run.pc = "getAllVersions"
    /\ IF CacheIsFresh
       THEN run' = versionCheck(run, The(versionsCache))
       ELSE \E versions \in VersionLists(store) :
                run' = [run EXCEPT !.pc = "versions", !.existing = versions]
    /\ UNCHANGED <<store, versionsCache, versionsCacheTime, clock, done, api>>

\* the query's result arrives: the list is cached and returned to the run
GetAllVersionsReturn ==
    /\ run.pc = "versions"
    /\ versionsCache' = Some(run.existing)
    /\ versionsCacheTime' = Some(clock)
    /\ run' = versionCheck(run, run.existing)
    /\ UNCHANGED <<store, clock, done, api>>

\* deleteByVersion(version) = deleteDocuments({version})
DeleteByVersion ==
    /\ run.pc = "deleteByVersion"
    /\ store' = afterDelete(store, [version |-> Some(run.options.version)])
    /\ versionsCache' = None
    /\ run' = extracting([run EXCEPT !.log =
                             Append(@, [call |-> "deleteByVersion", chunks |-> <<>>])])
    /\ api' = overtaken(api)
    /\ UNCHANGED <<versionsCacheTime, clock, done>>

\* getDocumentCount() returns: progress 15 and 20, then the loop
GetDocumentCount ==
    /\ run.pc = "getDocumentCount"
    /\ \E count \in DocumentCounts :
           run' = forAwait([run EXCEPT !.totalDocs = count,
                                       !.progress = Append(Append(@, 15), 20)])
    /\ UNCHANGED <<store, versionsCache, versionsCacheTime, clock, done, api>>

\* addDocuments(chunks): the objects are written, an object of the same id
\* replaced, and the versions cache dropped
addDocuments(r) ==
    /\ store' = {obj \in store : \A i \in 1..Len(r.chunks) : obj.id # r.chunks[i].id}
                    \cup objectsOf(r.chunks)
    /\ versionsCache' = None
    /\ api' = overtaken(api)
    /\ UNCHANGED <<versionsCacheTime, clock, done>>

\* the run's state after addDocuments(chunks) has returned
flushed(r) ==
    [r EXCEPT !.chunksIndexed = @ + Len(r.chunks),
              !.written = @ \cup {r.chunks[i].id : i \in 1..Len(r.chunks)},
              !.log = Append(@, [call |-> "addDocuments",
                                 chunks |-> [i \in 1..Len(r.chunks) |->
                                                r.chunks[i].id]])]

AddBatchKeepsBuffer ==
    /\ run.pc = "addBatch"
    /\ addDocuments(run)
    /\ run' = forAwait(flushed(run))

\* a full batch is written inside the loop, and the loop goes on
AddBatch ==
    /\ run.pc = "addBatch"
    /\ addDocuments(run)
    /\ run' = forAwait([flushed(run) EXCEPT !.chunks = <<>>])

\* the chunks left after the loop are written
AddRemaining ==
    /\ run.pc = "addRemaining"
    /\ addDocuments(run)
    /\ run' = finalizing(flushed(run))

\* documentSource.cleanup() returns: progress 100 and the counts
SourceCleanup ==
    /\ run.pc = "cleanup"
    /\ done' = Append(done, [n |-> run.n,
                             version |-> run.options.version,
                             clearExisting |-> run.options.clearExisting,
                             batchSize |-> run.options.batchSize,
                             result |-> [documentsProcessed |-> run.documentsProcessed,
                                         chunksIndexed |-> run.chunksIndexed],
                             written |-> run.written,
                             existing |-> run.existing,
                             log |-> run.log,
                             progress |-> Append(run.progress, 100)])
    /\ run' = NoRun
    /\ UNCHANGED <<store, versionsCache, versionsCacheTime, clock, api>>

\* the catch block removing what the run has written before it rethrows
ThrowsRollsBack ==
    /\ run # NoRun
    /\ done' = Append(done, [n |-> run.n,
                             version |-> run.options.version,
                             clearExisting |-> run.options.clearExisting,
                             error |-> run.pc,
                             written |-> run.written,
                             existing |-> run.existing,
                             log |-> run.log,
                             progress |-> run.progress])
    /\ run' = NoRun
    /\ store' = {obj \in store : obj.id \notin run.written}
    /\ UNCHANGED <<versionsCache, versionsCacheTime, clock, api>>

ThrowsAfterCompleted ==
    /\ run # NoRun
    /\ done' = Append(done, [n |-> run.n,
                             version |-> run.options.version,
                             clearExisting |-> run.options.clearExisting,
                             error |-> run.pc,
                             written |-> run.written,
                             existing |-> run.existing,
                             log |-> run.log,
                             progress |-> Append(run.progress, 100)])
    /\ run' = NoRun
    /\ UNCHANGED <<store, versionsCache, versionsCacheTime, clock, api>>

\* the call the run waits for (initialize, getAllVersions or its query,
\* deleteByVersion, getDocumentCount or the first read of the source,
\* addDocuments, cleanup) throws: the catch block logs and rethrows, the
\* error named after the call
Throws ==
    /\ run # NoRun
    /\ done' = Append(done, [n |-> run.n,
                             version |-> run.options.version,
                             clearExisting |-> run.options.clearExisting,
                             error |-> run.pc,
                             written |-> run.written,
                             existing |-> run.existing,
                             log |-> run.log,
                             progress |-> run.progress])
    /\ run' = NoRun
    /\ UNCHANGED <<store, versionsCache, versionsCacheTime, clock, api>>

\* the map of jobs after updateJob(jobId, updates) on it
jobsAfter(map, jobId, updates) ==
    IF jobId \notin DOMAIN map
    THEN map
    ELSE [map EXCEPT ![jobId] =
            ObjectAssign(ObjectAssign(@, updates), [updatedAt |-> now])]

\* new IndexService(documentSource, documentProcessor, vectorStore): the
\* service's vector store is the third argument of the constructor
IndexService(arguments) ==
    [vectorStore |-> IF Len(arguments) >= 3 THEN arguments[3] ELSE None]

\* the service runIndexingJob builds: four arguments, the third of them
\* fastify.embeddingService, which the server never decorates (undefined)
RunnerService ==
    IndexService(<<Some("documentSource"), Some("documentProcessor"), None,
                   Some("vectorStore")>>)

\* the upload route from createJob on and runIndexingJob, which run to the
\* end without waiting for any input or output: createJob, updateJob
\* (progress 5), startJob, indexDocuments up to reportProgress('initializing',
\* 0) and `await this.vectorStore.initialize()`, which throws a TypeError as
\* the service's vector store is undefined; the catch block of indexDocuments
\* rethrows and the catch block of runIndexingJob calls failJob. The job's id
\* is the number of the run; the route answers 400 without a version.
runIndexingJob(version) ==
    LET n == Len(done) + 1
        message == "Cannot read properties of undefined (reading 'initialize')"
        created ==
            [id \in (DOMAIN jobs) \cup {n} |->
                IF id = n
                THEN [id |-> n, type |-> "index", status |-> "pending",
                      progress |-> 0, stage |-> "created",
                      message |-> "Job created", createdAt |-> now,
                      updatedAt |-> now, result |-> Null, error |-> Null]
                ELSE jobs[id]]
        uploaded ==
            jobsAfter(created, n,
                      [status |-> "running", stage |-> "uploading", progress |-> 5])
        started ==
            jobsAfter(uploaded, n, [status |-> "running", startedAt |-> now])
        reported ==
            jobsAfter(started, n, [stage |-> "initializing", progress |-> 0])
        failed ==
            jobsAfter(reported, n,
                      [status |-> "failed", stage |-> "error", message |-> message,
                       error |-> [message |-> message, stack |-> "at run"],
                       failedAt |-> now])
    IN  /\ run = NoRun
        /\ Len(done) < MaxRuns
        /\ RunnerService.vectorStore = None
        /\ done' = Append(done, [n |-> n,
                                 version |-> version,
                                 clearExisting |-> FALSE,
                                 error |-> message,
                                 written |-> {},
                                 existing |-> <<>>,
                                 log |-> <<>>,
                                 progress |-> <<0>>])
        /\ jobs' = failed
        /\ activeJobs' = (activeJobs \cup {n}) \ {n}
        /\ emitted' = emitProgress(n, uploaded[n]) \o emitProgress(n, started[n])
                          \o emitProgress(n, reported[n])
                          \o emitProgress(n, failed[n])
        /\ UNCHANGED <<now, last, path, calls, listeners, readyState, delivered,
                       chunkVars, search, processedChunks, store, versionsCache,
                       versionsCacheTime, clock, run, api>>

\* getLatestVersion() of a request: getAllVersions() gives the cached list,
\* or sends the query
GetLatestVersion ==
    /\ api.pc # "reading"
    /\ IF CacheIsFresh
       THEN api' = [pc |-> "returned",
                    versions |-> The(versionsCache),
                    latest |-> latestOf(The(versionsCache)),
                    overtaken |-> FALSE]
       ELSE \E versions \in VersionLists(store) :
                api' = [pc |-> "reading", versions |-> versions, overtaken |-> FALSE]
    /\ UNCHANGED <<store, versionsCache, versionsCacheTime, clock, run, done>>

\* the query's result arrives: the list is cached, its last element returned
GetLatestVersionReturn ==
    /\ api.pc = "reading"
    /\ versionsCache' = Some(api.versions)
    /\ versionsCacheTime' = Some(clock)
    /\ api' = [pc |-> "returned",
               versions |-> api.versions,
               latest |-> latestOf(api.versions),
               overtaken |-> api.overtaken]
    /\ UNCHANGED <<store, clock, run, done>>

\* Date.now() advances by 60 seconds
ClockTick ==
    /\ clock < MaxClock
    /\ clock' = clock + 1
    /\ UNCHANGED <<store, versionsCache, versionsCacheTime, run, done, api>>

--------------------------------------------------------------------------
(* Query Service: search *)

\* the order in which the store ranks objects for the query vector; which
\* object ranks where is the store's matter, the model ranks by id and lets
\* versions and tags vary over the ids
RankedBefore(a, b) ==
    \/ a.id[1] < b.id[1]
    \/ a.id[1] = b.id[1] /\ a.id[2] < b.id[2]

RECURSIVE Ranked(_)
Ranked(objects) ==
    IF objects = {}
    THEN <<>>
    ELSE LET best == CHOOSE a \in objects : \A b \in objects \ {a} : RankedBefore(a, b)
         IN  <<best>> \o Ranked(objects \ {best})

\* the result vectorStore.search makes of an object
resultOf(obj) ==
    [id |-> obj.id,
     text |-> obj.text,
     metadata |-> [version |-> obj.version,
                   documentPath |-> obj.path,
                   tags |-> obj.tags,
                   chunkIndex |-> obj.chunkIndex,
                   totalChunks |-> obj.totalChunks]]

\* vectorStore.search(queryEmbedding, limit, filter): the best limit objects
\* that match the filter
storeSearch(objects, limit, filter) ==
    LET hits == Ranked({obj \in objects : Matches(obj, filter)})
    IN  [i \in 1..Min(limit, Len(hits)) |-> resultOf(hits[i])]

\* tags && tags.length > 0
HasTags(options) == options.tags # None /\ Len(The(options.tags)) > 0

fetchLimitSame(options) == options.limit

\* fetchLimit: three times the limit when tags are given
fetchLimit(options) ==
    IF HasTags(options) THEN options.limit * 3 ELSE options.limit

postFilterNoSlice(results, options) ==
    IF HasTags(options)
    THEN LET tagged(result) ==
                 \E i \in 1..Len(The(options.tags)) :
                     Includes(result.metadata.tags, The(options.tags)[i])
         IN  SelectSeq(results, tagged)
    ELSE results

\* the post-filter by tags and the cut to limit, made when tags are given
postFilter(results, options) ==
    IF HasTags(options)
    THEN LET tagged(result) ==
                 \E i \in 1..Len(The(options.tags)) :
                     Includes(result.metadata.tags, The(options.tags)[i])
         IN  Slice(SelectSeq(results, tagged), 0, options.limit)
    ELSE results

versionFilterCallerWins(filter, searchVersion) ==
    [key \in DOMAIN filter \cup {"version"} |->
        IF key \in DOMAIN filter THEN filter[key] ELSE Some(searchVersion)]

\* { ...filter, version: searchVersion }
versionFilter(filter, searchVersion) ==
    [key \in DOMAIN filter \cup {"version"} |->
        IF key = "version" THEN Some(searchVersion) ELSE filter[key]]

\* the limits, tag lists and filters search is called with
Limits == {1, 2, 5}

TagLists == {<<>>, <<<<"r">>>>, <<<<"r">>, <<"v">>>>}

SearchOptions ==
    [limit : Limits,
     version : Versions \cup {<<>>},
     tags : {None} \cup {Some(tags) : tags \in TagLists},
     filter : {<<>>, [version |-> Some(<<"1", "0">>)],
               [version |-> Some(<<"1", "0">>), tags |-> Some(<<"r">>)]}]

\* search(query, options): the version is the one given or the latest one
\* (getLatestVersion, through the cache or a query that fills it); without
\* any version the result is empty, else the query is embedded, the store
\* searched and the results filtered by tags
Search(options) ==
    /\ search = NoRequest
    /\ \E versions \in (IF options.version # <<>> THEN {<<>>}
                         ELSE IF CacheIsFresh THEN versionsCache
                         ELSE VersionLists(store)) :
         LET given == options.version # <<>>
             latest == IF given THEN Some(options.version) ELSE latestOf(versions)
             searchVersion == The(latest)
             filter == versionFilter(options.filter, searchVersion)
             results == storeSearch(store, fetchLimit(options), filter)
         IN  /\ versionsCache' =
                  IF given \/ CacheIsFresh THEN versionsCache ELSE Some(versions)
             /\ versionsCacheTime' =
                  IF given \/ CacheIsFresh THEN versionsCacheTime ELSE Some(clock)
             /\ search' =
                  IF latest = None
                  THEN [pc |-> "returned", options |-> options, latest |-> latest,
                        embedded |-> FALSE, searched |-> FALSE, result |-> <<>>]
                  ELSE [pc |-> "returned", options |-> options, latest |-> latest,
                        embedded |-> TRUE, searched |-> TRUE,
                        limit |-> fetchLimit(options),
                        filter |-> filter, found |-> results,
                        result |-> postFilter(results, options)]
    /\ UNCHANGED <<store, clock>>

\* the stores a search meets: up to MaxObjects objects of any version and
\* path tags, each with the version as its last tag, and the stores of 13
\* objects of which 3 carry the tag r
MaxObjects == 3

storedObject(k, version, pathTags) ==
    [id |-> <<0, k>>,
     text |-> <<"a">>,
     version |-> version,
     path |-> <<"d", "/", "a", ".", "m", "d">>,
     tags |-> Append(pathTags, version),
     chunkIndex |-> 0,
     totalChunks |-> 1]

SmallStores ==
    UNION {{{storedObject(k, shape[k][1], shape[k][2]) : k \in 1..n} :
               shape \in [1..n -> Versions \X {<<>>, <<<<"r">>>>, <<<<"v">>>>}]} :
           n \in 0..MaxObjects}

ScenarioStores ==
    {{storedObject(k, <<"9">>, IF k \in matching THEN <<<<"r">>>> ELSE <<<<"v">>>>) :
          k \in 1..13} :
        matching \in {ks \in SUBSET {1, 5, 9, 13} : Cardinality(ks) = 3}}

\* the filters search and deleteDocuments are called with: {}, the
\* {version: undefined} of deleteByVersion(undefined) and the maps with a
\* version and tags, each null (or []), a string or an array of two
Filters ==
    {<<>>, [version |-> None]} \cup
    [version : {None} \cup {Some(v) : v \in Versions} \cup {Versions},
     tags : {None, Some(<<"r">>), {<<"r">>, <<"v">>}}]

\* vectorStore.search(queryEmbedding, limit, filter) with a limit no less
\* than the number of objects
StoreSearch(filter) ==
    /\ req = NoCall
    /\ req' = [fn |-> "search", filter |-> filter]
    /\ ret' = storeSearch(store, MaxObjects, filter)
    /\ UNCHANGED <<doc, store, versionsCache>>

\* vectorStore.deleteDocuments(filter): nothing is done without a condition,
\* else the objects are deleted and the versions cache dropped
DeleteDocuments(filter) ==
    /\ req = NoCall
    /\ req' = [fn |-> "deleteDocuments", filter |-> filter]
    /\ ret' = <<>>
    /\ store' = afterDelete(store, filter)
    /\ versionsCache' = IF NoCondition(filter) THEN versionsCache ELSE None
    /\ UNCHANGED doc

--------------------------------------------------------------------------
(* Specifications *)

\* a new WeaviateAdapter on an empty collection, no call made
StoreIdle ==
    /\ store = {}
    /\ versionsCache = None
    /\ versionsCacheTime = None
    /\ clock = 1
    /\ run = NoRun
    /\ done = <<>>
    /\ api = NoRequest
    /\ search = NoRequest
    /\ processedChunks = <<>>

InitChunk ==
    /\ JobsIdle
    /\ StoreIdle
    /\ doc \in [path : {GuidePath}, content : ShortTexts \cup LongTexts]
    /\ req = NoCall
    /\ ret = <<>>

\* what a call of the chunker or the processor leaves alone
ChunkFrame == UNCHANGED <<jobVars, storeVars>>

NextChunk ==
    \/ (\E args \in ChunkArgs : CallChunkText(args)) /\ ChunkFrame
    \/ (\E options \in ProcessorOptions : CallProcessDocument(options)) /\ ChunkFrame
    \/ (\E options \in ProcessorOptions : CallProcessDocumentNoChunking(options)) /\ ChunkFrame

SpecChunk == InitChunk /\ [][NextChunk]_vars

InitLoop ==
    /\ JobsIdle
    /\ StoreIdle
    /\ doc \in [path : {GuidePath}, content : LoopTexts]
    /\ req = NoCall
    /\ ret = <<>>

NextLoop ==
    \/ (\E args \in LoopArgs : EnterChunkText(args)) /\ ChunkFrame
    \/ WhilePass /\ ChunkFrame

\* chunkText pass by pass; a loop that can make a pass makes it
SpecLoop == InitLoop /\ [][NextLoop]_vars /\ WF_vars(WhilePass /\ ChunkFrame)

InitJobs == JobsIdle /\ ChunkIdle /\ StoreIdle

\* what the job manager leaves alone
JobsFrame == UNCHANGED <<chunkVars, storeVars>>

NextJobs ==
    \/ (\E id \in JobIds : CreateJob(id)) /\ JobsFrame
    \/ (\E id \in JobIds, u \in Updates : UpdateJob(id, u)) /\ JobsFrame
    \/ (\E id \in JobIds : StartJob(id)) /\ JobsFrame
    \/ (\E id \in JobIds, r \in Results : CompleteJob(id, r)) /\ JobsFrame
    \/ (\E id \in JobIds, e \in Errors : FailJob(id, e)) /\ JobsFrame
    \/ Cleanup /\ JobsFrame
    \/ Tick /\ JobsFrame

SpecJobs == InitJobs /\ [][NextJobs]_vars

InitPath ==
    /\ JobsIdle
    /\ StoreIdle
    /\ doc \in [path : DocumentPaths, content : {<<>>}]
    /\ req = NoCall
    /\ ret = <<>>

NextPath ==
    \/ CallExtractProduct /\ ChunkFrame
    \/ CallExtractFramework /\ ChunkFrame
    \/ CallExtractType /\ ChunkFrame

SpecPath == InitPath /\ [][NextPath]_vars

InitListeners == InitJobs

\* the job manager with the WebSocket connections of the server
NextListeners ==
    \/ (\E id \in JobIds : CreateJob(id)) /\ JobsFrame
    \/ (\E id \in JobIds, u \in Updates : UpdateJob(id, u)) /\ JobsFrame
    \/ (\E id \in JobIds : StartJob(id)) /\ JobsFrame
    \/ (\E id \in JobIds, r \in Results : CompleteJob(id, r)) /\ JobsFrame
    \/ (\E id \in JobIds, e \in Errors : FailJob(id, e)) /\ JobsFrame
    \/ Connect /\ JobsFrame
    \/ (\E connection \in DOMAIN readyState : Close(connection)) /\ JobsFrame

SpecListeners == InitListeners /\ [][NextListeners]_vars

InitFilter ==
    /\ JobsIdle
    /\ ChunkIdle
    /\ store \in SmallStores
    /\ versionsCache = None
    /\ versionsCacheTime = None
    /\ clock = 1
    /\ run = NoRun
    /\ done = <<>>
    /\ api = NoRequest
    /\ search = NoRequest
    /\ processedChunks = <<>>

\* what search and deleteDocuments leave alone
FilterFrame ==
    UNCHANGED <<jobVars, versionsCacheTime, clock, run, done, api, search,
                processedChunks>>

NextFilter ==
    \/ (\E filter \in Filters : StoreSearch(filter)) /\ FilterFrame
    \/ (\E filter \in Filters : DeleteDocuments(filter)) /\ FilterFrame

SpecFilter == InitFilter /\ [][NextFilter]_vars

InitIndex ==
    /\ JobsIdle
    /\ ChunkIdle
    /\ store = {}
    /\ versionsCache = None
    /\ versionsCacheTime = None
    /\ clock = 1
    /\ run = NoRun
    /\ done = <<>>
    /\ api = NoRequest
    /\ search = NoRequest
    /\ processedChunks = SourceChunks

\* what indexDocuments and getLatestVersion leave alone
IndexFrame == UNCHANGED <<jobVars, chunkVars, search, processedChunks>>

\* indexDocuments as the command line calls it, with the requests that ask
\* for the latest version meanwhile
NextIndex ==
    \/ (\E options \in IndexOptions : IndexDocuments(options)) /\ IndexFrame
    \/ Initialize /\ IndexFrame
    \/ GetAllVersions /\ IndexFrame
    \/ GetAllVersionsReturn /\ IndexFrame
    \/ DeleteByVersion /\ IndexFrame
    \/ GetDocumentCount /\ IndexFrame
    \/ AddBatch /\ IndexFrame
    \/ AddRemaining /\ IndexFrame
    \/ SourceCleanup /\ IndexFrame
    \/ GetLatestVersion /\ IndexFrame
    \/ GetLatestVersionReturn /\ IndexFrame
    \/ ClockTick /\ IndexFrame

SpecIndex == InitIndex /\ [][NextIndex]_vars

\* indexDocuments run after run, with batches of every size
NextBatch ==
    \/ (\E options \in BatchOptions : IndexDocuments(options)) /\ IndexFrame
    \/ Initialize /\ IndexFrame
    \/ GetAllVersions /\ IndexFrame
    \/ GetAllVersionsReturn /\ IndexFrame
    \/ DeleteByVersion /\ IndexFrame
    \/ GetDocumentCount /\ IndexFrame
    \/ AddBatch /\ IndexFrame
    \/ AddRemaining /\ IndexFrame
    \/ SourceCleanup /\ IndexFrame

SpecBatch == InitIndex /\ [][NextBatch]_vars

InitRunner == InitIndex

\* uploads, each run to its end by runIndexingJob, and calls of
\* indexDocuments on a service with a vector store, any of its store and
\* source calls failing
NextRunner ==
    \/ \E version \in Versions : runIndexingJob(version)
    \/ (\E options \in DefaultOptions : IndexDocuments(options)) /\ IndexFrame
    \/ Initialize /\ IndexFrame
    \/ GetAllVersions /\ IndexFrame
    \/ GetAllVersionsReturn /\ IndexFrame
    \/ DeleteByVersion /\ IndexFrame
    \/ GetDocumentCount /\ IndexFrame
    \/ AddBatch /\ IndexFrame
    \/ AddRemaining /\ IndexFrame
    \/ SourceCleanup /\ IndexFrame
    \/ Throws /\ IndexFrame

SpecRunner == InitRunner /\ [][NextRunner]_vars

InitQuery ==
    /\ JobsIdle
    /\ ChunkIdle
    /\ store \in SmallStores \cup ScenarioStores
    /\ versionsCache = None
    /\ versionsCacheTime = None
    /\ clock = 1
    /\ run = NoRun
    /\ done = <<>>
    /\ api = NoRequest
    /\ search = NoRequest
    /\ processedChunks = <<>>

NextQuery ==
    \/ /\ \E options \in SearchOptions : Search(options)
       /\ UNCHANGED <<jobVars, chunkVars, run, done, api, processedChunks>>

SpecQuery == InitQuery /\ [][NextQuery]_vars

Terminal(job) == job.status \in {"completed", "failed"}

\* C1: once a job's status is 'completed' or 'failed', no later call of
\* updateJob, startJob, completeJob or failJob on it changes its status.
C1_TerminalStatusIsFinal ==
    [][\A id \in DOMAIN jobs :
          (Terminal(jobs[id]) /\ id \in DOMAIN jobs')
              => jobs'[id].status = jobs[id].status]_vars

\* C2: a job taken through createJob, startJob, completeJob in that order is
\* 'pending' with progress 0 and returned by getJob after createJob, 'running'
\* with startedAt set after startJob, and 'completed' with progress 100 and
\* the given result after completeJob (until the sweep may remove it, 24
\* hours later).
C2_LifecycleStates ==
    \A id \in JobIds :
        /\ path[id] = SubSeq(Lifecycle, 1, 1) =>
              /\ getJob(id) # Null
              /\ getJob(id).id = id
              /\ getJob(id).status = "pending"
              /\ getJob(id).progress = 0
        /\ path[id] = SubSeq(Lifecycle, 1, 2) =>
              /\ JobExists(id)
              /\ jobs[id].status = "running"
              /\ "startedAt" \in DOMAIN jobs[id]
        /\ (/\ path[id] = Lifecycle
            /\ last.op = "completeJob" /\ last.id = id
            /\ now - last.at <= OneDay) =>
              /\ JobExists(id)
              /\ jobs[id].status = "completed"
              /\ jobs[id].progress = 100
              /\ jobs[id].result = last.arg
              /\ "startedAt" \in DOMAIN jobs[id]

\* a job has just been completed at the end of its regular lifecycle
C2_Witness ==
    \E id \in JobIds :
        /\ path[id] = Lifecycle
        /\ last.op = "completeJob" /\ last.id = id
        /\ JobExists(id) /\ jobs[id].status = "completed"

\* C3: after failJob(id, error) on an existing job the job is 'failed', its
\* error holds the error's message and stack, it is not among the active
\* jobs, and getJob and getAllJobs return it for at least 24 hours.
C3_FailedJobQueryable ==
    (last.op = "failJob" /\ last.found /\ now - last.at <= OneDay) =>
        /\ getJob(last.id) # Null
        /\ getJob(last.id).id = last.id
        /\ getJob(last.id).status = "failed"
        /\ getJob(last.id).error =
              [message |-> last.arg.message, stack |-> last.arg.stack]
        /\ last.id \notin activeJobs
        /\ \A j \in getActiveJobs : j.id # last.id
        /\ \E j \in getAllJobs : j.id = last.id /\ j.status = "failed"

\* failJob has acted on a job that was running, a day has passed and the
\* sweep has not removed the job
C3_Witness ==
    /\ last.op = "failJob" /\ last.found
    /\ now - last.at = OneDay
    /\ JobExists(last.id)
    /\ "startedAt" \in DOMAIN jobs[last.id]
    /\ jobs[last.id].error.message = "boom"

\* the calls that change a job
Mutations == {"updateJob", "startJob", "completeJob", "failJob"}

\* C13: every call of updateJob, startJob, completeJob or failJob on an
\* existing job stamps the job's updatedAt and emits exactly two events that
\* carry the job as it is after the call: 'progress', then 'progress:{id}'.
C13_TwoEventsPerMutation ==
    (last.op \in Mutations /\ last.found /\ JobExists(last.id)) =>
        /\ jobs[last.id].updatedAt = last.at
        /\ Len(emitted) = 2
        /\ emitted[1] = [event |-> <<"progress">>, job |-> jobs[last.id]]
        /\ emitted[2] = [event |-> <<"progress", last.id>>, job |-> jobs[last.id]]

\* failJob has just acted on a job created a day before
C13_Witness ==
    /\ last.op = "failJob" /\ last.found /\ last.at = now
    /\ JobExists(last.id)
    /\ jobs[last.id].createdAt < now
    /\ Len(emitted) = 2

\* C19: the listeners of 'progress' are at all times those of the connections
\* that have not closed, one each, and a call that changes a job calls each of
\* them exactly once and the listener of no closed connection, whatever
\* connections have come and gone before.
C19_EachListenerOnce ==
    [][/\ \A c \in DOMAIN readyState' :
              Cardinality({i \in 1..Len(listeners') : listeners'[i] = c})
                  = (IF readyState'[c] = 1 THEN 1 ELSE 0)
       /\ (calls' = calls + 1 /\ last'.op \in Mutations /\ last'.found) =>
              /\ Len(emitted') = 2
              /\ \A c \in DOMAIN readyState :
                     (Cardinality({i \in 1..Len(delivered') : delivered'[i] = c})
                          = (IF readyState[c] = 1 THEN 1 ELSE 0))]_vars

\* a job was changed after the first of two connections had closed: the
\* listener of the second was called, once
C19_Witness ==
    /\ Len(readyState) = 2
    /\ readyState[1] = 3
    /\ last.op \in Mutations /\ last.found
    /\ delivered = <<2>>

--------------------------------------------------------------------------
(* Chunker and Document Processor claims *)

Texts(chunks) == [i \in 1..Len(chunks) |-> chunks[i].text]

SizeBased == req.fn = "processDocument" /\ ~req.options.useMarkdownHeaders

\* C8: with size-based chunking and zero overlap, the texts of a document's
\* chunks, concatenated in chunkIndex order, are the document's content
\* (through a DocumentProcessor built with chunkOverlap 0, and through
\* chunkText called with overlap 0).
C8_ZeroOverlapReconstructs ==
    /\ (SizeBased /\ req.options.chunkOverlap = 0) =>
          Concat(Texts(ret)) = doc.content
    /\ (req.fn = "chunkText" /\ req.overlap = 0) =>
          Concat(ret) = doc.content

\* C9: the chunks processDocument returns carry the chunkIndex values
\* 0, 1, ..., totalChunks-1 in output order, and all carry the same
\* totalChunks, the number of chunks returned.
C9_ChunkIndexContiguous ==
    req.fn \in {"processDocument", "processDocumentNoChunking"} =>
        \A i \in 1..Len(ret) :
            /\ ret[i].metadata.chunkIndex = i - 1
            /\ ret[i].metadata.totalChunks = Len(ret)
            /\ 0 <= ret[i].metadata.chunkIndex
            /\ ret[i].metadata.chunkIndex < ret[i].metadata.totalChunks

\* a document was cut by its headings into at least three chunks
C9_Witness ==
    /\ req.fn = "processDocument"
    /\ req.options.useMarkdownHeaders
    /\ Len(ret) >= 3
    /\ ret[3].metadata.chunkIndex = 2

\* chunkText was called with 0 <= overlap < chunkSize on a longer text
LongCall ==
    /\ req.fn = "chunkText"
    /\ req.overlap < req.chunkSize
    /\ Len(doc.content) > req.chunkSize

IsTail(p) == p.tail

IsWindow(p) == ~p.tail

\* where the final remainder starts, given the windows chunkText's loop cut
\* (the pushes but the remainder's), and the remainder trimmed
TailStart(windows) == windows[Len(windows)].start + req.chunkSize - req.overlap

Remainder(windows) == Trim(SliceFrom(doc.content, TailStart(windows)))

\* the 3000 character text cut with chunkSize 1000 and overlap 200
Scenario ==
    /\ req.chunkSize = DefaultChunkSize
    /\ req.overlap = DefaultChunkOverlap
    /\ Len(doc.content) = 3 * DefaultChunkSize

\* no chunk is longer than chunkSize, and each window starts
\* chunkSize - overlap after the one before and shares at most overlap
\* characters with it
WindowsAdvance(pushes) ==
    /\ \A i \in 1..Len(ret) : Len(ret[i]) <= req.chunkSize
    /\ \A i \in 1..(Len(pushes) - 1) :
          /\ pushes[i + 1].start = pushes[i].start + req.chunkSize - req.overlap
          /\ pushes[i].start + Len(pushes[i].raw) - pushes[i + 1].start <= req.overlap

--------------------------------------------------------------------------
(* Index Service and Vector Store claims *)

\* an indexDocuments call returned its counts
Complete(outcome) == "result" \in DOMAIN outcome

\* the last two indexDocuments calls ran one after the other for the same
\* version, both returned their counts, and none is under way
Reindexed ==
    /\ run = NoRun
    /\ Len(done) >= 2
    /\ Complete(done[Len(done) - 1])
    /\ Complete(done[Len(done)])
    /\ done[Len(done) - 1].version = done[Len(done)].version

\* C4: after two sequential complete indexDocuments runs of the same source
\* with the same version, the store holds for that version exactly the chunks
\* the second run wrote: as many as one run writes, and none of the first run.
C4_ReindexReplacesVersion ==
    Reindexed =>
        LET first == done[Len(done) - 1]
            second == done[Len(done)]
            ofVersion == {obj \in store : obj.version = second.version}
        IN  /\ {obj.id : obj \in ofVersion} = second.written
            /\ Cardinality(ofVersion) = Cardinality(first.written)
            /\ \A obj \in ofVersion : obj.id \notin first.written

\* C7: a getLatestVersion() call that no write to the store overtook returns
\* null when the store holds no version, and otherwise the greatest, in
\* ascending string order, of the distinct versions in the store, which is
\* an element of the list getAllVersions() gave it.
C7_LatestIsMaximum ==
    (api.pc = "returned" /\ ~api.overtaken) =>
        LET indexed == {obj.version : obj \in store}
        IN  /\ indexed = {} => api.latest = None
            /\ indexed # {} =>
                  /\ api.latest # None
                  /\ The(api.latest) \in indexed
                  /\ Includes(api.versions, The(api.latest))
                  /\ \A version \in indexed \ api.latest :
                        StrLess(version, The(api.latest))

--------------------------------------------------------------------------
(* Query Service claims *)

\* C5: search never returns more than limit results, with tags or without.
C5_AtMostLimit ==
    search.pc = "returned" => Len(search.result) <= search.options.limit

\* a search with tags for which the store found more tagged results than the
\* limit, and which returned limit of them
C5_Witness ==
    /\ search.pc = "returned"
    /\ search.searched
    /\ HasTags(search.options)
    /\ Len(postFilterNoSlice(search.found, search.options)) > search.options.limit
    /\ Len(search.result) = search.options.limit

\* result carries one of the tags asked for
Tagged(result) ==
    \E i \in 1..Len(The(search.options.tags)) :
        Includes(result.metadata.tags, The(search.options.tags)[i])

\* C6: with tags, search asks the store for 3 * limit results and returns,
\* in the store's order, the first limit of them that carry a requested tag;
\* so when at most 3 * limit chunks match the version filter and m of them
\* carry a requested tag, it returns min(m, limit) results.
C6_TagPostFilter ==
    (search.pc = "returned" /\ search.searched /\ HasTags(search.options)) =>
        LET limit == search.options.limit
            matching == {obj \in store : Matches(obj, search.filter)}
            ranked == Ranked(matching)
            asked == [i \in 1..Min(3 * limit, Len(ranked)) |-> resultOf(ranked[i])]
            tagged == SelectSeq(asked, Tagged)
            m == Cardinality({obj \in matching : Tagged(resultOf(obj))})
        IN  /\ search.limit = 3 * limit
            /\ search.found = asked
            /\ search.result = SubSeq(tagged, 1, Min(limit, Len(tagged)))
            /\ Cardinality(matching) <= 3 * limit =>
                  Len(search.result) = Min(m, limit)

\* the search for tag r with limit 5 in a store of 13 chunks of which 3 carry
\* the tag: 15 results were asked for, 3 returned
C6_Witness ==
    /\ search.pc = "returned"
    /\ search.searched
    /\ search.options.tags = Some(<<<<"r">>>>)
    /\ search.options.limit = 5
    /\ Cardinality(store) = 13
    /\ Len(search.found) = 13
    /\ Len(search.result) = 3

\* C12: after a run of indexDocuments with clearExisting = true has
\* completed, the store holds only chunks written by that run: the chunks
\* indexed before, of every version, are gone.
C12_ClearRemovesEverything ==
    (run = NoRun /\ done # <<>>) =>
        LET outcome == done[Len(done)]
        IN  (Complete(outcome) /\ outcome.clearExisting) =>
                \A obj \in store : obj.id \in outcome.written

\* C16: a call of indexDocuments without a version ends at once with an
\* error: the run never reaches initialize or any later step, the store and
\* the adapter are as before, and the progress callback has not been called.
C16_NoVersionFailsFirst ==
    [][(run = NoRun /\ (run' # NoRun \/ Len(done') > Len(done))) =>
           LET ended == Len(done') > Len(done)
               outcome == done'[Len(done')]
               version == IF ended THEN outcome.version ELSE run'.options.version
           IN  version = <<>> =>
                   /\ ended
                   /\ run' = NoRun
                   /\ ~Complete(outcome)
                   /\ outcome.error = "Version is required for indexing"
                   /\ outcome.progress = <<>>
                   /\ outcome.written = {}
                   /\ store' = store
                   /\ versionsCache' = versionsCache
                   /\ versionsCacheTime' = versionsCacheTime]_vars

\* a call without a version has failed after a run that had written chunks
C16_Witness ==
    /\ Len(done) = 2
    /\ Complete(done[1])
    /\ done[2].version = <<>>
    /\ ~Complete(done[2])
    /\ store # {}
    /\ run = NoRun

\* the calls that ended with an error thrown inside the try block of
\* indexDocuments: by a store or source call, named after the place the run
\* waited at, or on the way to one
Thrown == {n \in 1..Len(done) : /\ ~Complete(done[n])
                               /\ done[n].error # "Version is required for indexing"}

\* C17: when a store or source step of indexDocuments has thrown, the call
\* has ended with that error, has not reported progress 100 and has returned
\* no counts, and when the call was runIndexingJob's, the job of the run is
\* 'failed' with the error's message and not among the active jobs.
C17_FailureFailsJob ==
    \A n \in Thrown :
        /\ ~Includes(done[n].progress, 100)
        /\ "result" \notin DOMAIN done[n]
        /\ n \in DOMAIN jobs =>
              /\ jobs[n].status = "failed"
              /\ jobs[n].error.message = done[n].error
              /\ jobs[n].result = Null
              /\ n \notin activeJobs

\* cleanup() has thrown in a call after all its chunks were written and
\* progress 98 reported, and a later run of runIndexingJob has failed at
\* initialize
C17_Witness ==
    /\ Len(done) = 2
    /\ ~Complete(done[1])
    /\ done[1].error = "cleanup"
    /\ Includes(done[1].progress, 98)
    /\ Cardinality(done[1].written) = Len(processedChunks)
    /\ 2 \in DOMAIN jobs
    /\ jobs[2].status = "failed"
    /\ jobs[2].error.message = done[2].error

\* C18: every progress value indexDocuments reports and every progress value
\* stored on a job is an integer from 0 to 100, whatever getDocumentCount
\* returns.
C18_ProgressInRange ==
    /\ run # NoRun =>
          \A i \in 1..Len(run.progress) : run.progress[i] \in 0..100
    /\ \A n \in 1..Len(done) :
          \A i \in 1..Len(done[n].progress) : done[n].progress[i] \in 0..100
    /\ \A id \in DOMAIN jobs : jobs[id].progress \in 0..100

\* the store and source calls of a run, by the place the run waits at
Steps ==
    {"initialize", "getAllVersions", "versions", "deleteByVersion",
     "getDocumentCount", "addBatch", "addRemaining", "cleanup"}

\* C23: every job of the upload route is terminal once its run has ended,
\* never completed and failed both; it is 'completed', with a result that
\* carries documentsProcessed and chunksIndexed, when none of the run's
\* source and store calls has thrown, and 'failed' otherwise.
C23_JobEndsAsRunEnds ==
    \A n \in (DOMAIN jobs) \cap (1..Len(done)) :
        /\ jobs[n].status \in {"completed", "failed"}
        /\ ~({"completedAt", "failedAt"} \subseteq DOMAIN jobs[n])
        /\ n \notin activeJobs
        /\ IF done[n].error \in Steps
           THEN jobs[n].status = "failed"
           ELSE /\ jobs[n].status = "completed"
                /\ jobs[n].result # Null
                /\ {"documentsProcessed", "chunksIndexed"}
                       \subseteq DOMAIN jobs[n].result

\* C24: getActiveJobs() returns exactly the jobs whose status is 'running':
\* a job is in the active set if and only if its status is 'running'.
C24_ActiveIffRunning ==
    /\ getActiveJobs = {job \in getAllJobs : job.status = "running"}
    /\ \A id \in DOMAIN jobs : id \in activeJobs <=> jobs[id].status = "running"

\* C25: the progress values carried by the successive progress events of an
\* upload's job never decrease, from the job's creation to its terminal state.
C25_ProgressNeverDecreases ==
    \A i, j \in 1..Len(emitted) :
        (i < j /\ emitted[i].job.id = emitted[j].job.id) =>
            emitted[i].job.progress <= emitted[j].job.progress

\* C26: chunkText terminates and returns a finite list of chunks for every
\* non-empty text, every chunkSize >= 1 and every overlap >= 0, also an
\* overlap equal to or larger than the chunk size.
C26_ChunkTextReturns == (req.fn = "chunkText") ~> (req.fn = "returned")

\* C27: size-based chunking with 0 <= overlap < chunkSize loses no content:
\* every position of the text that holds a non-whitespace character lies
\* inside at least one returned chunk, also when a window was cut back to a
\* sentence end or a newline.
C27_NoContentLost ==
    (req.fn = "chunkText" /\ req.overlap < req.chunkSize) =>
        LET pushes == SelectSeq(chunkPushes(doc.content, req.chunkSize, req.overlap),
                                NonEmpty)
        IN  \A i \in 1..Len(doc.content) :
                doc.content[i] \notin Whitespace =>
                    \E p \in 1..Len(pushes) :
                        /\ pushes[p].start < i
                        /\ i <= pushes[p].start + Len(pushes[p].raw)

\* C28: the documentsProcessed a run of indexDocuments returns is the number
\* of documents the source has yielded, however many chunks each has given.
C28_EveryDocumentCounted ==
    \A n \in 1..Len(done) :
        Complete(done[n]) => done[n].result.documentsProcessed = Len(SourceDocuments)

\* C29: whatever the size of the store, a search with tags returns
\* min(limit, m) results, m the number of chunks of the searched version that
\* carry a requested tag; exactly limit results when m >= limit.
C29_TaggedUpToLimit ==
    (search.pc = "returned" /\ search.searched /\ HasTags(search.options)) =>
        LET matching == {obj \in store : Matches(obj, search.filter)}
            m == Cardinality({obj \in matching : Tagged(resultOf(obj))})
        IN  Len(search.result) = Min(search.options.limit, m)

\* C30: deleteDocuments with a filter that gives no condition ({}, or every
\* value null, undefined or []) deletes nothing and leaves the versions cache
\* alone; so deleteByVersion(undefined) deletes no chunk of any version.
C30_NoConditionDeletesNothing ==
    [][(req'.fn = "deleteDocuments" /\ req.fn = "none"
            /\ \A key \in DOMAIN req'.filter : req'.filter[key] = None) =>
           /\ store' = store
           /\ versionsCache' = versionsCache]_vars

\* deleteByVersion(undefined) has returned on a store of three chunks
C30_Witness ==
    /\ req.fn = "deleteDocuments"
    /\ req.filter = [version |-> None]
    /\ Cardinality(store) = MaxObjects

\* the runs so far, ended or under way: the version, the list getAllVersions
\* gave and the store calls completed
RunsSoFar ==
    {[version |-> done[n].version, existing |-> done[n].existing,
      log |-> done[n].log] : n \in 1..Len(done)}
        \cup (IF run = NoRun
               THEN {}
               ELSE {[version |-> run.options.version, existing |-> run.existing,
                      log |-> run.log]})

\* C21: in a run of indexDocuments whose version is in the list
\* getAllVersions returned, deleteByVersion is the first call that changes the
\* store and has completed before the first addDocuments; in a run whose
\* version is not in the list no delete is made.
C21_DeleteBeforeFirstWrite ==
    \A r \in RunsSoFar :
        LET deletes == {i \in 1..Len(r.log) : r.log[i].call = "deleteByVersion"}
            adds == {i \in 1..Len(r.log) : r.log[i].call = "addDocuments"}
        IN  IF Includes(r.existing, r.version)
            THEN /\ deletes \subseteq {1}
                 /\ adds # {} => deletes = {1}
            ELSE deletes = {}

\* a second run of the same version has deleted and then written two batches
C21_Witness ==
    /\ Len(done) = 2
    /\ Complete(done[2])
    /\ Includes(done[2].existing, done[2].version)
    /\ Len(done[2].log) = 3
    /\ done[2].log[1].call = "deleteByVersion"

\* the chunks of the addDocuments calls of a log, one after the other
RECURSIVE Passed(_)
Passed(log) ==
    IF log = <<>>
    THEN <<>>
    ELSE (IF Head(log).call = "addDocuments" THEN Head(log).chunks ELSE <<>>)
            \o Passed(Tail(log))

\* C22: in a run that has returned, the chunks passed to addDocuments are the
\* chunks the processor produced, each once and in order; every call but the
\* last carries batchSize chunks and the last from 1 to batchSize; and
\* chunksIndexed is the number of chunks passed.
C22_BatchesCoverChunksOnce ==
    \A n \in 1..Len(done) :
        Complete(done[n]) =>
            LET isAdd(entry) == entry.call = "addDocuments"
                adds == SelectSeq(done[n].log, isAdd)
            IN  /\ Passed(done[n].log) =
                       [i \in 1..Len(processedChunks) |-> <<n, i>>]
                /\ \A k \in 1..Len(adds) :
                       /\ Len(adds[k].chunks) \in 1..done[n].batchSize
                       /\ k < Len(adds) =>
                              Len(adds[k].chunks) = done[n].batchSize
                /\ done[n].result.chunksIndexed = Len(Passed(done[n].log))

\* a run with batches of 2 has returned after a batch of 2 and a last of 1,
\* and a run with batches of 3 after a delete and one batch
C22_Witness ==
    /\ Len(done) >= 1
    /\ Complete(done[1])
    /\ done[1].batchSize = 2
    /\ Len(done) = 2
    /\ done[2].batchSize = Len(processedChunks)
    /\ Len(done[2].log) = 2
    /\ Len(done[1].log) = 2
    /\ Len(done[1].log[1].chunks) = 2
    /\ Len(done[1].log[2].chunks) = 1

\* C20: a getAllVersions or getLatestVersion call made after the writes to
\* the store have completed, and answered from the cache, returns a list of
\* versions the store gives now: never one read before a write.
C20_NoListFromBeforeAWrite ==
    [][/\ (api.pc # "reading" /\ api'.pc = "returned" /\ api' # api) =>
              api'.versions \in VersionLists(store)
       /\ (run.pc = "getAllVersions" /\ run' # run /\ run'.pc # "versions") =>
              run'.existing \in VersionLists(store)]_vars

\* C15: a search without a version, made when no version is indexed and
\* getLatestVersion returns null, returns an empty list and neither embeds
\* the query nor calls vectorStore.search.
C15_NoVersionNoSearch ==
    (/\ search.pc = "returned"
     /\ search.options.version = <<>>
     /\ (store = {} \/ search.latest = None)) =>
        /\ search.result = <<>>
        /\ ~search.embedded
        /\ ~search.searched

\* a search with tags and a filter but no version has returned from the
\* empty store
C15_Witness ==
    /\ search.pc = "returned"
    /\ search.options.version = <<>>
    /\ HasTags(search.options)
    /\ search.options.filter # <<>>
    /\ store = {}
    /\ search.latest = None
    /\ versionsCache = Some(<<>>)

\* the ids of the objects the step's call selects: those search returns or
\* deleteDocuments removes
Selected ==
    IF req'.fn = "search"
    THEN {ret'[i].id : i \in 1..Len(ret')}
    ELSE {obj.id : obj \in store \ store'}

\* C14 as claimed: an object is selected by search or deleteDocuments if and
\* only if, for every field of the filter, its property is the field's value
\* or one of the values of the field's array.
C14_SelectedIffEveryField ==
    [][Selected =
           {obj.id : obj \in
               {o \in store :
                   \A key \in DOMAIN req'.filter :
                       \E value \in req'.filter[key] : Equal(o, key, value)}}]_vars

\* C14: the fields that are null, undefined or an empty array give no
\* condition; an object is selected by search if and only if, for every other
\* field of the filter, its property is the field's value or one of the values
\* of the field's array, and by deleteDocuments if moreover there is such a
\* field: without one deleteDocuments deletes nothing.
C14_SelectedIffEveryGivenField ==
    [][LET given == {key \in DOMAIN req'.filter : req'.filter[key] # {}}
           every == {o \in store :
                        \A key \in given :
                            \E value \in req'.filter[key] : Equal(o, key, value)}
       IN  Selected =
               IF req'.fn = "deleteDocuments" /\ given = {}
               THEN {}
               ELSE {obj.id : obj \in every}]_vars

\* a search for version 9 with an array of two tags in a store of three
\* objects has returned the one object that is of the version and has a tag
C14_Witness ==
    /\ req.fn = "search"
    /\ req.filter = [version |-> Some(<<"9">>), tags |-> {<<"r">>, <<"v">>}]
    /\ Cardinality(store) = 3
    /\ Len(ret) = 1

--------------------------------------------------------------------------
(* Path metadata claims *)

\* the folders of the path at hand, in lower case: its segments but the last
FoldersOf ==
    LET parts == Split(toLowerCase(doc.path), "/")
    IN  SubSeq(parts, 1, Len(parts) - 1)

\* the first of the tokens that is a folder of the path, or the fallback
KnownFolder(tokens, fallback) ==
    LET hits == {k \in 1..Len(tokens) : Includes(FoldersOf, tokens[k])}
    IN  IF hits = {}
        THEN fallback
        ELSE tokens[CHOOSE k \in hits : \A h \in hits : k <= h]

\* the type a folder name stands for
TypeOfFolder(folder) ==
    CASE folder \in {Guide, Guide \o <<"s">>} -> Guide
      [] folder = Api -> Api
      [] folder \in {Example, Example \o <<"s">>} -> Example
      [] folder \in {Concept, Concept \o <<"s">>} -> Concept
      [] OTHER -> <<>>

\* C11: extractProduct and extractFramework return the known token that is
\* a folder of the path, at any position and in any case, and 'core' and
\* 'vanilla' when there is none; extractType returns the type a folder of the
\* path names (guide, api, example, concept), and 'guide' when none does.
C11_KnownFolderOrDefault ==
    /\ req.fn = "extractProduct" => ret = KnownFolder(Products, Core)
    /\ req.fn = "extractFramework" => ret = KnownFolder(Frameworks, Vanilla)
    /\ req.fn = "extractType" =>
          LET types == <<Guide, Api, Example, Concept>>
              named == {k \in 1..Len(types) :
                           \E i \in 1..Len(FoldersOf) :
                               TypeOfFolder(FoldersOf[i]) = types[k]}
          IN  ret = IF named = {}
                    THEN Guide
                    ELSE types[CHOOSE k \in named : \A h \in named : k <= h]

Unstamped == {k \in 1..Len(processedChunks) : k >= run.next}

C33_ProgressInOrder ==
    \A n \in 1..Len(done) :
        Complete(done[n]) =>
            LET progress == done[n].progress
            IN  /\ \A i, j \in 1..Len(progress) : i < j => progress[i] <= progress[j]
                /\ progress[1] = 0
                /\ progress[Len(progress)] = 100
                /\ \A i \in 1..Len(progress) :
                       progress[i] \in {0, 5, 10, 15, 98, 100} \cup 20..95
                /\ Includes(progress, 5) => Includes(done[n].existing, done[n].version)
                /\ done[n].written = {<<n, k>> : k \in 1..Len(processedChunks)}
                /\ done[n].result.chunksIndexed = Len(processedChunks)

\* the run had entered the for await loop over the source's documents when
\* it ended
ReadStarted(outcome) ==
    Complete(outcome) \/ outcome.error \in {"addBatch", "addRemaining", "cleanup"}

\* the run reached await this.documentSource.cleanup()
CleanupCalled(outcome) == Complete(outcome) \/ outcome.error = "cleanup"

\* C34: an indexing run that has started to read the document source does
\* not end before documentSource.cleanup() has been called, whether it
\* returns or throws.
C34_CleanupBeforeEnd ==
    \A n \in 1..Len(done) : ReadStarted(done[n]) => CleanupCalled(done[n])

\* C35: the filter search hands to vectorStore.search is the caller's filter
\* with the field version set to the version given in the options, or to what
\* getLatestVersion() returned when none was given: a version inside the
\* caller's filter is overridden, and every other field is passed as it is.
C35_FilterCarriesVersion ==
    (search.pc = "returned" /\ search.searched) =>
        LET caller == search.options.filter
            resolved == IF search.options.version # <<>>
                        THEN search.options.version
                        ELSE The(search.latest)
        IN  /\ DOMAIN search.filter = DOMAIN caller \cup {"version"}
            /\ search.filter.version = Some(resolved)
            /\ \A key \in DOMAIN caller \ {"version"} :
                   search.filter[key] = caller[key]

\* a search without a version, with a filter for version 10 and the tag r,
\* has searched the store for the latest version 9 and the tag r
C35_Witness ==
    /\ search.pc = "returned"
    /\ search.searched
    /\ search.options.version = <<>>
    /\ search.options.filter = [version |-> Some(<<"1", "0">>), tags |-> Some(<<"r">>)]
    /\ search.latest = Some(<<"9">>)
    /\ search.filter = [version |-> Some(<<"9">>), tags |-> Some(<<"r">>)]
    /\ search.found # <<>>

\* the chunks processDocuments has yielded for the document of a path
ChunksOfPath(documentPath) ==
    LET OfPath(chunk) == chunk.metadata.documentPath = documentPath
    IN  SelectSeq(processedChunks, OfPath)

\* the place of a chunk's document in the source
DocumentOf(chunk) ==
    CHOOSE d \in 1..Len(SourceDocuments) :
        SourceDocuments[d].path = chunk.metadata.documentPath

\* C36: a document on which processDocument throws gives no chunk; of every
\* other document all the chunks processDocument made are yielded, in their
\* order (at least one when the document has text), document after document
\* in the order of the source; the run goes on to write all of them.
C36_ThrowingDocumentSkipped ==
    /\ \A d \in 1..Len(SourceDocuments) :
           LET chunks == ChunksOfPath(SourceDocuments[d].path)
           IN  IF processDocumentThrows(SourceDocuments[d])
               THEN chunks = <<>>
               ELSE /\ \A i \in 1..Len(chunks) :
                          /\ chunks[i].metadata.chunkIndex = i - 1
                          /\ chunks[i].metadata.totalChunks = Len(chunks)
                    /\ (\E i \in 1..Len(SourceDocuments[d].content) :
                            SourceDocuments[d].content[i] \notin Whitespace)
                          => chunks # <<>>
    /\ \A j, k \in 1..Len(processedChunks) :
           j < k => DocumentOf(processedChunks[j]) <= DocumentOf(processedChunks[k])
    /\ run.pc = "cleanup" =>
           run.written = {<<run.n, k>> : k \in 1..Len(processedChunks)}

\* a run over the source, whose third document throws, has returned with the
\* chunk of the fourth document written
C36_Witness ==
    /\ processDocumentThrows(SourceDocuments[3])
    /\ Len(done) = 1
    /\ Complete(done[1])
    /\ \E obj \in store : obj.id = <<1, 3>> /\ obj.path = SourceDocuments[4].path

\* processDocument was called on a processor that chunks by headers
HeaderBased == req.fn = "processDocument" /\ req.options.useMarkdownHeaders

\* the headings of the header lines of the document
HeadingsOf(content) ==
    LET lines == Split(content, "\n")
    IN  {Trim(headerMatch(lines[i]).heading) :
            i \in {l \in 1..Len(lines) : headerMatch(lines[l]) # Null}}

\* C37: with header-aware chunking no chunk is longer than the maximum size,
\* and every chunk of a document that begins with a header line (all its text
\* lies in headed sections) carries the heading of one of the sections, with
\* the suffix " (part k)" on a later piece of a section that was re-split.
C37_SectionHeadingKept ==
    HeaderBased =>
        /\ \A i \in 1..Len(ret) :
               Len(ret[i].text) <= DocumentProcessor(req.options).chunkSize
        /\ headerMatch(Split(doc.content, "\n")[1]) # Null =>
               \A i \in 1..Len(ret) :
                   \E heading \in HeadingsOf(doc.content), index \in 0..MaxLen :
                       ret[i].metadata.heading = partHeading(heading, index)

\* the job is one the sweep is to remove: terminal, and last updated more
\* than 24 hours ago
Swept(job) == Terminal(job) /\ job.updatedAt < now - OneDay

\* C38: a job leaves the job map only by the sweep, and the sweep removes
\* exactly the jobs that are 'completed' or 'failed' and were last updated
\* more than 24 hours before it; a 'pending' or 'running' job stays, however
\* old it is, and so does a terminal job updated 24 hours ago or less.
C38_SweepRemovesOldTerminal ==
    [][/\ \A id \in DOMAIN jobs : id \notin DOMAIN jobs' => Swept(jobs[id])
       /\ (\E id \in DOMAIN jobs : id \notin DOMAIN jobs') =>
              \A id \in DOMAIN jobs : Swept(jobs[id]) => id \notin DOMAIN jobs']_vars

\* a sweep has removed a job that had been completed, and left a running job
\* and a failed job in the map: the one as old as the job removed, the other
\* updated 24 hours ago
C38_Witness ==
    \E gone \in JobIds, kept \in DOMAIN jobs :
        /\ gone \notin DOMAIN jobs
        /\ path[gone] # <<>>
        /\ \/ jobs[kept].status = "running" /\ jobs[kept].updatedAt < now - OneDay
           \/ jobs[kept].status = "failed" /\ jobs[kept].updatedAt = now - OneDay

====
